---- MODULE Spec2Model ----
(***************************************************************************)
(* Model of the graph-checks engine of graph-hopper: the issue registry    *)
(* (graph_checks/registry.py), the identity/addressing analyzers           *)
(* (duplicate_devices.py, invalid_device_ranges.py, missing_vendor_ids.py, *)
(* missing_properties.py, subnet_mismatches.py), the topology analyzers    *)
(* (missing_routers.py, unreachable_networks.py, network_loops.py,         *)
(* duplicate_networks.py), oversized_networks.py, broadcast_domains.py     *)
(* and routing_inefficiencies.py.  The analyzers are operators computed    *)
(* as the code computes them; their graph traversals are also given one    *)
(* loop pass or call at a time (SpecTraversals).                           *)
(*                                                                         *)
(* RDF terms (URIs and the lexical forms of literals) are sequences of     *)
(* one-character strings, so that str(), int(), startswith(), split() and  *)
(* the "in" substring test are computed and not assumed.  A triple is      *)
(* <<subject, predicate, object>> with the predicate a plain string.       *)
(***************************************************************************)
EXTENDS Integers, Sequences, FiniteSets, TLC

VARIABLES
    graph,               \* the triple store handed to the analyzers
    pc,                  \* position of the registry caller
    requested,           \* selector given to resolve_issues_to_check
    issues_to_check,     \* list given to execute_checks
    verbose,             \* verbose flag of the running execute_checks call
    idx,                 \* loop position inside execute_checks
    all_issues,          \* execute_checks: issue type -> list of findings
    all_affected_triples,\* execute_checks: accumulated affected entities
    executed_functions,  \* execute_checks: analyzers already called
    calls,               \* call counter per analyzer (a mock's counter)
    outputs,             \* findings each analyzer returned in this call
    faulted,             \* the store raised during this call
    last,                \* record of the last direct analyzer run
    earlier,             \* analyzers the earlier execute_checks calls ran
    trav                 \* the locals of the graph traversal in progress

vars == <<graph, pc, requested, issues_to_check, verbose, idx, all_issues,
          all_affected_triples, executed_functions, calls, outputs, faulted,
          last, earlier, trav>>

-----------------------------------------------------------------------------
(* Bounds *)

\* largest number of triples in a generated store
MaxTriples == 4

\* largest number of attachments (of a device or a router to a network or a
\* subnet) in a generated topology
MaxLinks == 3

\* largest number of routers in a generated routing topology
MaxRouters == 5

\* number of routers in a generated store of routers holding network numbers
MaxPeers == 2

\* how far below and above a device-count threshold the generated network
\* sizes go
MaxMargin == 1

\* longest hand-made issues_to_check list
MaxRequestLen == 2

\* number of networks of the largest generated ring of routers
MaxRing == 7

\* most findings an analyzer that is not modelled in detail returns
MaxFindings == 2

-----------------------------------------------------------------------------
(* Strings *)

None == <<"None">>
PyStr(s) == <<"str", s>>
PyInt(n) == <<"int", n>>

S_Empty       == <<>>
S_Grasshopper == <<"G","r","a","s","s","h","o","p","p","e","r">>
S_Unknown     == <<"U","n","k","n","o","w","n">>
S_DevicePfx   == <<"D","e","v","i","c","e"," ">>
S_VendorPfx   == <<"b","a","c","n","e","t",":","/","/","v","e","n","d","o","r","/">>
S_HttpVendor5 == <<"h","t","t","p",":","/","/","v","e","n","d","o","r","/","5">>

DigitChars == <<"0","1","2","3","4","5","6","7","8","9">>
IsDigit(c) == \E i \in 1..10 : DigitChars[i] = c
DigitVal(c) == (CHOOSE i \in 1..10 : DigitChars[i] = c) - 1

\* s.startswith(p)
StartsWith(s, p) == Len(s) >= Len(p) /\ SubSeq(s, 1, Len(p)) = p

\* sub in s
Contains(s, sub) ==
    \E i \in 1..(Len(s) - Len(sub) + 1) : SubSeq(s, i, i + Len(sub) - 1) = sub

\* s.split('/')[-1]
LastSegment(s) ==
    LET cuts == {i \in 1..Len(s) : s[i] = "/"}
        from == IF cuts = {} THEN 1
                ELSE (CHOOSE i \in cuts : \A j \in cuts : j <= i) + 1
    IN SubSeq(s, from, Len(s))

\* s.strip(), as int() applies it
RECURSIVE Strip(_)
Strip(s) ==
    IF s = <<>> THEN s
    ELSE IF s[1] = " " THEN Strip(Tail(s))
    ELSE IF s[Len(s)] = " " THEN Strip(SubSeq(s, 1, Len(s) - 1))
    ELSE s

RECURSIVE DigitsValue(_, _)
DigitsValue(s, acc) ==
    IF s = <<>> THEN acc
    ELSE IF s[1] = "_" THEN DigitsValue(Tail(s), acc)
    ELSE DigitsValue(Tail(s), acc * 10 + DigitVal(s[1]))

\* the digit part int() accepts: digits, single underscores between digits
IsDigitBody(b) ==
    /\ Len(b) > 0
    /\ \A i \in 1..Len(b) :
          \/ IsDigit(b[i])
          \/ /\ b[i] = "_"
             /\ i > 1 /\ i < Len(b)
             /\ IsDigit(b[i - 1]) /\ IsDigit(b[i + 1])

\* int(s): [ok |-> TRUE, val |-> n], or ok = FALSE for ValueError
ParseInt(s) ==
    LET t    == Strip(s)
        neg  == t # <<>> /\ t[1] = "-"
        sgn  == t # <<>> /\ t[1] \in {"-", "+"}
        body == IF sgn THEN Tail(t) ELSE t
    IN IF IsDigitBody(body)
       THEN [ok |-> TRUE,
             val |-> IF neg THEN 0 - DigitsValue(body, 0) ELSE DigitsValue(body, 0)]
       ELSE [ok |-> FALSE, val |-> 0]

-----------------------------------------------------------------------------
(* Terms of the stores *)

DevA   == <<"d","e","v","A">>
DevB   == <<"d","e","v","B">>
Net1   == <<"n","e","t","1">>
Net2   == <<"n","e","t","2">>
Sub1   == <<"s","u","b","1">>
C_Device == <<"D","e","v","i","c","e">>

P_type      == "rdf:type"
P_label     == "rdfs:label"
P_instance  == "device-instance"
P_address   == "address"
P_vendor    == "vendor-id"
P_onnetwork == "device-on-network"
P_onsubnet  == "device-on-subnet"

P_model     == "model-name"
P_devname   == "device-name"
P_firmware  == "firmware-revision"

P_serves     == "serves-network"
P_subnetof   == "subnet-of-network"
P_subnetaddr == "subnet-address"
P_netnumber  == "network-number"
P_nettype    == "network-type"
P_bbmdonsubnet == "bbmd-on-subnet"

Predicates == <<P_type, P_label, P_instance, P_address, P_vendor,
                P_onnetwork, P_onsubnet, P_model, P_devname, P_firmware,
                P_serves, P_subnetof, P_subnetaddr, P_netnumber, P_nettype,
                P_bbmdonsubnet>>

C_Router  == <<"R","o","u","t","e","r">>
C_Network == <<"B","A","C","n","e","t","N","e","t","w","o","r","k">>
C_Subnet  == <<"S","u","b","n","e","t">>
C_BBMD    == <<"B","B","M","D">>

\* str(n) for a natural number n
RECURSIVE Digits(_)
Digits(n) ==
    IF n < 10 THEN <<DigitChars[n + 1]>>
    ELSE Digits(n \div 10) \o <<DigitChars[(n % 10) + 1]>>

\* the i-th network, router and subnet (Net1 is Net(1), Sub1 is Sub(1))
Net(i) == <<"n","e","t">> \o Digits(i)
Rtr(i) == <<"r","t","r">> \o Digits(i)
Sub(i) == <<"s","u","b">> \o Digits(i)

L_5        == <<"5">>
L_7sp      == <<" ","7">>
L_x        == <<"x">>
L_m1       == <<"-","1">>
L_0        == <<"0">>
L_max      == <<"4","1","9","4","3","0","3">>
L_over     == <<"4","1","9","4","3","0","4">>
L_123      == <<"1","2","3">>
V_7        == S_VendorPfx \o <<"7">>
V_0        == S_VendorPfx \o <<"0">>
V_bad      == S_VendorPfx \o <<"x">>
V_path     == S_VendorPfx \o <<"x","/","5">>

\* device addresses and subnet ranges
A_10_0_0_5    == <<"1","0",".","0",".","0",".","5">>
A_10_0_1_5    == <<"1","0",".","0",".","1",".","5">>
A_10_0_0_9_port == <<"1","0",".","0",".","0",".","9",":","4","7","8","0","8">>
Bbmd1 == <<"b","b","m","d","1">>
N_10_0_0_0_24 == <<"1","0",".","0",".","0",".","0","/","2","4">>
N_10_0_1_9_24 == <<"1","0",".","0",".","1",".","9","/","2","4">>

\* network-type values, a label and a network whose URI names its type
T_MSTP      == <<"M","S","T","P">>
T_ARCNET    == <<"A","R","C","N","E","T">>
T_PTP       == <<"P","T","P">>
T_Ethernet  == <<"E","t","h","e","r","n","e","t">>
L_IPCompare == <<"I","P"," ","C","o","m","p","a","r","e"," ","N","e","t","w","o","r","k">>
NetIp       == <<"n","e","t","-","i","p">>

\* the i-th device of a sized network
Dev(i) == <<"d","e","v">> \o Digits(i)

\* every term, in the order the "asc" enumeration lists them
TermUniverse ==
    <<DevA, DevB, S_Grasshopper, Net1, Net2, Sub1, C_Device,
      S_Empty, L_x, L_m1, L_0, L_5, L_7sp, L_123, L_max, L_over,
      V_7, V_0, V_bad, V_path, S_HttpVendor5,
      C_Router, C_Network, C_Subnet>>
    \o [i \in 1..(MaxRing - 1) |-> Net(i + 2)]
    \o [i \in 1..(11 * (MaxRing + 1)) |-> Rtr(i)]
    \o [i \in 1..2 |-> Sub(i + 1)]
    \o <<A_10_0_0_5, A_10_0_1_5, N_10_0_0_0_24, N_10_0_1_9_24>>
    \o <<T_MSTP, T_ARCNET, T_PTP, T_Ethernet, L_IPCompare, NetIp>>
    \o [i \in 1..(100 + MaxMargin) |-> Dev(i)]
    \o <<C_BBMD, Bbmd1, A_10_0_0_9_port>>

Nodes == {DevA, DevB}

-----------------------------------------------------------------------------
(* The triple store: graph.triples(pattern)                                *)
(* The store is a set of triples; the order in which a query enumerates    *)
(* its matches is the store's business.  A run is given one enumeration    *)
(* order: "asc" lists matches by (subject, predicate, object) position in  *)
(* TermUniverse, "desc" lists them the other way round.                    *)

EnumOrders == {"asc", "desc"}

Position(s, x) == CHOOSE i \in DOMAIN s : s[i] = x
Rank(terms, preds, t) ==
    (Position(terms, t[1]) * 1000 + Position(preds, t[2])) * 1000 + Position(terms, t[3])
TripleRank(t) == Rank(TermUniverse, Predicates, t)

\* the members of T by ascending rank
ByRank(T, rank) ==
    LET ordered(at) == [i \in 1..Cardinality(DOMAIN at) |->
                          CHOOSE x \in DOMAIN at : at[x] = i]
        places(r) == [x \in DOMAIN r |->
                        Cardinality({y \in DOMAIN r : r[y] < r[x]}) + 1]
    IN CHOOSE s \in {ordered(at) : at \in {places(r) : r \in {rank}}} : TRUE

Ascending(T) == ByRank(T, [t \in T |-> TripleRank(t)])

Reverse(s) ==
    CHOOSE r \in {[i \in 1..Len(v) |-> v[Len(v) + 1 - i]] : v \in {s}} : TRUE

Oriented(s, ord) == IF ord = "asc" THEN s ELSE Reverse(s)

Enumerate(T, ord) == Oriented(Ascending(T), ord)

\* graph.triples((s, p, None)), (None, p, o), (None, p, None), (s, None, None)
TriplesSP(g, s, p, ord) == Enumerate({t \in g : t[1] = s /\ t[2] = p}, ord)
TriplesPO(g, p, o, ord) == Enumerate({t \in g : t[2] = p /\ t[3] = o}, ord)
TriplesP(g, p, ord)     == Enumerate({t \in g : t[2] = p}, ord)
TriplesS(g, s, ord)     == Enumerate({t \in g : t[1] = s}, ord)

\* for _, _, value in graph.triples((s, p, None)): x = str(value); break
FirstOf(m) == IF m = <<>> THEN None ELSE PyStr(m[1][3])
FirstObject(g, s, p, ord) == FirstOf(TriplesSP(g, s, p, ord))

\* Python truthiness of an Optional[str]
Truthy(v) == v # None /\ v[2] # <<>>

\* list(a_set): a Python set lists its members in hash order
\* (here: a set of (scope, 'network' | 'subnet') pairs)
Untagged(sorted) ==
    [i \in DOMAIN sorted |->
       <<sorted[i][1], IF sorted[i][2] = P_onnetwork THEN "network" ELSE "subnet">>]

ListOfSet(S, hashord) ==
    LET asTriple(x) == <<x[1], IF x[2] = "network" THEN P_onnetwork ELSE P_onsubnet, x[1]>>
    IN Untagged(Enumerate({asTriple(x) : x \in S}, hashord))

\* the concatenation of the lists of ss: the cells <<list, index>> in order
Flatten(ss) ==
    LET cells(v) == UNION {{<<i, k>> : k \in 1..Len(v[i])} : i \in DOMAIN v}
        rank(C) == [c \in C |-> c[1] * (Cardinality(C) + 1) + c[2]]
        ordered(C) == ByRank(C, rank(C))
        joined(v, o) == [n \in DOMAIN o |-> v[o[n][1]][o[n][2]]]
    IN CHOOSE r \in {joined(p[1], p[2]) :
                       p \in {<<v, ordered(cells(v))>> : v \in {ss}}} : TRUE

Range(s) == {s[i] : i \in 1..Len(s)}

\* the keys of a dict filled in the order of s (insertion order, no repeats)
KeysInOrder(s) ==
    LET firsts(v) == {i \in DOMAIN v : \A j \in 1..(i - 1) : v[j] # v[i]}
        ordered(I) == ByRank(I, [i \in I |-> i])
        keys(v, o) == [n \in DOMAIN o |-> v[o[n]]]
    IN CHOOSE r \in {keys(p[1], p[2]) :
                       p \in {<<v, ordered(firsts(v))>> : v \in {s}}} : TRUE

\* what an analyzer hands back: a tuple of `arity` components, or an exception
Returned(t) == [raised |-> FALSE, value |-> t]
Raised == [raised |-> TRUE, value |-> <<>>]

-----------------------------------------------------------------------------
(* duplicate_devices.py *)

\* a duplicate test that also flags devices sharing one network
spans_several_networks_SameScope(devices, unique_networks) ==
    Len(devices) > 1 /\ Cardinality(unique_networks) >= 1

\* if len(devices) > 1: ... if len(unique_networks) > 1:
spans_several_networks(devices, unique_networks) ==
    Len(devices) > 1 /\ Cardinality(unique_networks) > 1

Subjects(m) == [i \in DOMAIN m |-> m[i][1]]
Objects(m) == [i \in DOMAIN m |-> m[i][3]]

\* device_instances[device_id], the devices in the order they were appended
Holding(trip, device_id) ==
    LET holds(t) == t[3] = device_id IN Subjects(SelectSeq(trip, holds))

Grouped(ids, trip) ==
    [k \in DOMAIN ids |-> [device_id |-> ids[k], devices |-> Holding(trip, ids[k])]]

\* first pass: device_instances, its items in insertion order
device_instances(trip) == Grouped(KeysInOrder(Objects(trip)), trip)

Tagged(m, kind) == [i \in DOMAIN m |-> <<m[i][3], kind>>]

\* second pass: the networks list collected for one device
networks(g, device, ord) ==
    Tagged(TriplesSP(g, device, P_onnetwork, ord), "network")
    \o Tagged(TriplesSP(g, device, P_onsubnet, ord), "subnet")

\* second pass: device_networks[str(device)]['networks'] (if networks: ...)
device_networks(g, trip, ord) ==
    LET all == [d \in Range(Subjects(trip)) |-> networks(g, d, ord)]
    IN [d \in {x \in DOMAIN all : all[x] # <<>>} |-> all[d]]

\* the entries of devices_flat for one device_info
device_entries(device, nets) ==
    [j \in DOMAIN nets |->
       [device |-> device, network |-> nets[j][1], network_type |-> nets[j][2]]]

\* third pass, one device_id: the issue appended, as a list of zero or one
duplicate_issue(entry, network_sets, devices_flat, hashord) ==
    IF spans_several_networks(entry.devices, Range(network_sets))
    THEN << [issue_type |-> "duplicate-device-id",
             device_id |-> entry.device_id,
             device_count |-> Len(entry.devices),
             devices |-> devices_flat,
             networks |-> ListOfSet(Range(network_sets), hashord)] >>
    ELSE <<>>

\* third pass, one device_id, over the devices found in device_networks
duplicate_issue_among(entry, listed, dn, hashord) ==
    duplicate_issue(entry,
                    Flatten([i \in DOMAIN listed |-> dn[listed[i]]]),
                    Flatten([i \in DOMAIN listed |-> device_entries(listed[i], dn[listed[i]])]),
                    hashord)

Known(devices, dn) == LET known(d) == d \in DOMAIN dn IN SelectSeq(devices, known)

third_pass(di, dn, hashord) ==
    [k \in DOMAIN di |->
       duplicate_issue_among(di[k], Known(di[k].devices, dn), dn, hashord)]

\* for device in devices: for triple in graph.triples((device, None, None))
triples_of(g, devices, ord) ==
    Flatten([i \in DOMAIN devices |-> TriplesS(g, devices[i], ord)])

duplicate_results(g, vb, ord, di, found) ==
    Returned(<< Flatten(found),
                Flatten([k \in DOMAIN di |->
                           IF found[k] # <<>> /\ vb
                           THEN triples_of(g, di[k].devices, ord) ELSE <<>>]) >>)

duplicate_passes(g, vb, ord, hashord, trip) ==
    duplicate_results(g, vb, ord, device_instances(trip),
                      third_pass(device_instances(trip), device_networks(g, trip, ord),
                                 hashord))

check_duplicate_device_ids(g, vb, ord, hashord, fault) ==
    IF fault THEN Returned(<<<<>>, <<>>>>)      \* except Exception: return [], []
    ELSE duplicate_passes(g, vb, ord, hashord, TriplesP(g, P_instance, ord))

-----------------------------------------------------------------------------
(* invalid_device_ranges.py *)

MIN_DEVICE_ID == 0
MAX_DEVICE_ID == 4194303

\* x if x else 'Unknown'
OrUnknown(v) == IF Truthy(v) THEN v[2] ELSE S_Unknown

\* label if label else f"Device {device_instance if device_instance else 'Unknown'}"
NameOrDefault(label_value, device_instance) ==
    IF Truthy(label_value) THEN label_value[2]
    ELSE S_DevicePfx \o OrUnknown(device_instance)

\* int(x) for an Optional[str] that is set
ParseOptional(v) == IF Truthy(v) THEN ParseInt(v[2]) ELSE [ok |-> FALSE, val |-> 0]

range_issue(device, vb, device_name, inst, device_address, text) ==
    [type |-> "invalid-device-ranges", severity |-> "critical",
     device |-> device, label |-> device_name, device_instance |-> inst,
     address |-> device_address, description |-> text]
    @@ (IF vb THEN [verbose_description |-> text] ELSE <<>>)

range_verdict(device, vb, device_name, device_instance, device_address, parsed) ==
    IF ~Truthy(device_instance) THEN <<>>           \* if not device_instance: continue
    ELSE IF ~parsed.ok
         THEN <<range_issue(device, vb, device_name, device_instance, device_address,
                            "is not a valid number")>>
    ELSE IF parsed.val < MIN_DEVICE_ID \/ parsed.val > MAX_DEVICE_ID
         THEN <<range_issue(device, vb, device_name, PyInt(parsed.val), device_address,
                            "is outside valid BACnet range")>>
    ELSE <<>>

range_described(device, vb, label_value, device_instance, address_value) ==
    range_verdict(device, vb, NameOrDefault(label_value, device_instance),
                  device_instance, OrUnknown(address_value),
                  ParseOptional(device_instance))

\* the finding of one Device, as a list of zero or one findings
invalid_range_issue(g, device, vb, ord) ==
    range_described(device, vb,
                    FirstObject(g, device, P_label, ord),
                    FirstObject(g, device, P_instance, ord),
                    FirstObject(g, device, P_address, ord))

\* issues and affected_nodes of the Devices `typed`, found[i] the finding of typed[i]
PerDevice(typed, found) ==
    << Flatten(found),
       Flatten([i \in DOMAIN typed |-> IF found[i] = <<>> THEN <<>> ELSE <<typed[i][1]>>]) >>

range_findings(g, vb, ord, typed) ==
    PerDevice(typed, [i \in DOMAIN typed |-> invalid_range_issue(g, typed[i][1], vb, ord)])

check_invalid_device_ranges(g, vb, ord, fault) ==
    IF fault THEN Raised
    ELSE Returned(range_findings(g, vb, ord, TriplesPO(g, P_type, C_Device, ord)))

-----------------------------------------------------------------------------
(* missing_vendor_ids.py *)

\* a vendor id parser that knows the bare form only
vendor_id_numeric_BareOnly(vendor_id) ==
    LET parsed == ParseInt(vendor_id)
    IN IF parsed.ok THEN PyInt(parsed.val) ELSE None

\* the numeric vendor id of str(vendor_value): PyInt(n), or None
vendor_id_numeric(vendor_id) ==
    LET parsed == IF StartsWith(vendor_id, S_VendorPfx)
                  THEN ParseInt(LastSegment(vendor_id))     \* bacnet://vendor/123
                  ELSE ParseInt(vendor_id)                  \* "123"
    IN IF parsed.ok THEN PyInt(parsed.val) ELSE None

\* "Grasshopper" in label or in URI
Sentinel(device, label_value) ==
    \/ Truthy(label_value) /\ Contains(label_value[2], S_Grasshopper)
    \/ Contains(device, S_Grasshopper)

is_grasshopper(g, device, ord) == Sentinel(device, FirstObject(g, device, P_label, ord))

\* vendor_id_numeric of an Optional[str]
NumericOptional(v) == IF Truthy(v) THEN vendor_id_numeric(v[2]) ELSE None

vendor_issue(device, vb, name, inst, addr, vid, text) ==
    [issue_type |-> "missing-vendor-ids", severity |-> "medium",
     device |-> device, label |-> name, device_instance |-> inst,
     address |-> addr, vendor_id |-> vid, description |-> text]
    @@ (IF vb THEN [verbose_description |-> text] ELSE <<>>)

\* the text of the finding about a vendor id, "" for none
vendor_verdict(vendor_id, numeric) ==
    IF ~Truthy(vendor_id) THEN "is missing vendor-id property"   \* if not vendor_id
    ELSE IF numeric = None THEN "has invalid vendor-id format"
    ELSE IF numeric[2] < 0 THEN "must be positive"
    ELSE IF numeric[2] = 0 THEN "reserved value"
    ELSE ""

vendor_reported(device, vb, name, inst, addr, vendor_id, text) ==
    IF text = "" THEN <<>>
    ELSE <<vendor_issue(device, vb, name, inst, addr,
                        IF Truthy(vendor_id) THEN vendor_id ELSE None, text)>>

vendor_described(device, vb, label_value, device_instance, device_address, vendor_id) ==
    IF Sentinel(device, label_value) THEN <<>>
    ELSE vendor_reported(device, vb,
                         NameOrDefault(label_value, device_instance),
                         OrUnknown(device_instance), OrUnknown(device_address),
                         vendor_id,
                         vendor_verdict(vendor_id, NumericOptional(vendor_id)))

\* the finding of one Device, as a list of zero or one findings
vendor_id_issue(g, device, vb, ord) ==
    vendor_described(device, vb,
                     FirstObject(g, device, P_label, ord),
                     FirstObject(g, device, P_instance, ord),
                     FirstObject(g, device, P_address, ord),
                     FirstObject(g, device, P_vendor, ord))

Tripled(pair) == <<pair[1], <<>>, pair[2]>>

vendor_findings(g, vb, ord, typed) ==
    PerDevice(typed, [i \in DOMAIN typed |-> vendor_id_issue(g, typed[i][1], vb, ord)])

\* returns issues, affected_triples, affected_nodes: three components
check_missing_vendor_ids(g, vb, ord, fault) ==
    IF fault THEN Raised
    ELSE Returned(Tripled(vendor_findings(g, vb, ord, TriplesPO(g, P_type, C_Device, ord))))

-----------------------------------------------------------------------------
(* missing_properties.py *)

essential_properties ==
    <<P_instance, P_address, P_vendor, P_model, P_devname, P_firmware, P_onnetwork>>

critical_properties == <<P_instance, P_address, P_vendor>>

\* a ladder that grades by the number of missing properties alone
missing_severity_CountOnly(missing_critical, total_missing) ==
    IF total_missing >= 4 THEN "major"
    ELSE IF total_missing >= 2 THEN "warning"
    ELSE IF total_missing > 0 THEN "info"
    ELSE ""

\* the severity of a Device, "" for a Device that has all properties (continue)
missing_severity(missing_critical, total_missing) ==
    IF missing_critical # <<>> THEN "critical"
    ELSE IF total_missing >= 4 THEN "major"
    ELSE IF total_missing >= 2 THEN "warning"
    ELSE IF total_missing > 0 THEN "info"
    ELSE ""

missing_reported(device, vb, name, inst, addr, present, missing, severity, all) ==
    IF severity = "" \/ missing = <<>> THEN <<>>
    ELSE << [issue_type |-> "missing-properties", severity |-> severity,
             device |-> device, device_name |-> name, device_instance |-> inst,
             address |-> addr, missing_count |-> Len(missing),
             total_essential |-> Len(essential_properties),
             missing_properties |-> missing, present_properties |-> present,
             description |-> "is missing essential properties"]
            @@ (IF vb THEN [all_properties |-> all,
                            verbose_description |-> "is missing essential BACnet properties"]
                ELSE <<>>) >>

missing_counted(device, vb, label_value, inst, addr, present, missing, all) ==
    LET critical(prop) == prop \in Range(critical_properties)
        S_LowerUnknown == <<"u","n","k","n","o","w","n">>
    IN IF Sentinel(device, label_value) THEN <<>>
       ELSE missing_reported(device, vb,
                IF Truthy(label_value) THEN label_value[2] ELSE device,
                IF Truthy(inst) THEN inst[2] ELSE S_LowerUnknown,
                IF Truthy(addr) THEN addr[2] ELSE S_LowerUnknown,
                present, missing,
                missing_severity(SelectSeq(missing, critical), Len(missing)),
                all)

\* the finding of one Device, as a list of zero or one findings
missing_properties_issue(g, device, vb, ord) ==
    LET has_property(prop) == \E t \in g : t[1] = device /\ t[2] = prop
        lacks(prop) == ~has_property(prop)
        \* issue['all_properties'] of a verbose finding
        all_device_props(m) ==
            [i \in DOMAIN m |->
               [property |-> IF m[i][2] = P_type THEN "type"
                             ELSE IF m[i][2] = P_label THEN "label" ELSE m[i][2],
                value |-> m[i][3], full_uri |-> m[i][2]]]
    IN missing_counted(device, vb,
                       FirstObject(g, device, P_label, ord),
                       FirstObject(g, device, P_instance, ord),
                       FirstObject(g, device, P_address, ord),
                       SelectSeq(essential_properties, has_property),
                       SelectSeq(essential_properties, lacks),
                       CHOOSE all \in {all_device_props(m) :
                                          m \in {TriplesS(g, device, ord)}} : TRUE)

\* returns issues, affected_triples, affected_nodes
check_missing_properties(g, vb, ord) ==
    LET found(typed) ==
            [i \in DOMAIN typed |-> missing_properties_issue(g, typed[i][1], vb, ord)]
        findings(typed) == PerDevice(typed, found(typed))
    IN Returned(Tripled(findings(TriplesPO(g, P_type, C_Device, ord))))

-----------------------------------------------------------------------------
(* missing_routers.py *)

\* for x in a_set: the members of a set of terms in the interpreter's order
TermsInOrder(S, hashord) ==
    Oriented(ByRank(S, [x \in S |-> Position(TermUniverse, x)]), hashord)

\* the objects of the triples of g with subject x and a predicate of preds
ObjectsOf(g, x, preds) == {t[3] : t \in {u \in g : u[1] = x /\ u[2] \in preds}}

\* the networks the subjects typed class are attached to: by a predicate of
\* direct, or by device-on-subnet and the subnet's subnet-of-network
networks_of(g, class, direct) ==
    LET through(x) == UNION {ObjectsOf(g, s, {P_subnetof}) :
                               s \in ObjectsOf(g, x, {P_onsubnet})}
    IN UNION {ObjectsOf(g, x, direct) \cup through(x) :
                x \in {t[1] : t \in {u \in g : u[2] = P_type /\ u[3] = class}}}

\* the finding about the networks `listed`, isolated_networks in listing order
missing_routers_issue(g, vb, ord, listed, total, routed) ==
    LET label(n) == FirstObject(g, n, P_label, ord)
        detail(n) == [network_uri |-> n,
                      network_label |-> IF label(n) = None THEN n ELSE label(n)[2]]
    IN [issue_type |-> "missing-routers", severity |-> "medium",
        message |-> "networks with devices but no routing infrastructure",
        description |-> "Networks with devices that lack router connections",
        isolated_networks |-> [i \in DOMAIN listed |-> detail(listed[i])],
        total_networks |-> total, routed_networks |-> routed]
       @@ (IF vb THEN [verbose_details |-> "Routing coverage"] ELSE <<>>)

\* a check that does not skip stores with fewer than two device networks
missing_routers_result_NoFloor(g, vb, ord, hashord, networks_with_devices, networks_with_routers) ==
    LET listed == TermsInOrder(networks_with_devices \ networks_with_routers, hashord)
    IN IF listed = <<>>
       THEN <<<<>>, <<>>, <<>>>>
       ELSE << <<missing_routers_issue(g, vb, ord, listed,
                                       Cardinality(networks_with_devices),
                                       Cardinality(networks_with_routers))>>,
               <<>>, listed >>

missing_routers_result(g, vb, ord, hashord, networks_with_devices, networks_with_routers) ==
    LET listed == TermsInOrder(networks_with_devices \ networks_with_routers, hashord)
    IN IF Cardinality(networks_with_devices) < 2 \/ listed = <<>>
       THEN <<<<>>, <<>>, <<>>>>
       ELSE << <<missing_routers_issue(g, vb, ord, listed,
                                       Cardinality(networks_with_devices),
                                       Cardinality(networks_with_routers))>>,
               <<>>, listed >>

\* returns issues, affected_triples, affected_nodes
check_missing_routers(g, vb, ord, hashord) ==
    Returned(missing_routers_result(g, vb, ord, hashord,
                networks_of(g, C_Device, {P_onnetwork}),
                networks_of(g, C_Router, {P_onnetwork, P_serves})))

-----------------------------------------------------------------------------
(* unreachable_networks.py *)

\* _get_network_name: the label, else "Network <number>", else the URI's tail
get_network_name(label_value, number_value, network) ==
    IF label_value # None THEN label_value[2]
    ELSE IF number_value # None
         THEN <<"N","e","t","w","o","r","k"," ">> \o number_value[2]
    ELSE LastSegment(network)

\* router_networks: the networks a router is on, directly or through a subnet
\* (serves-network is not read)
router_networks(g, router) ==
    ObjectsOf(g, router, {P_onnetwork})
    \cup UNION {ObjectsOf(g, s, {P_subnetof}) : s \in ObjectsOf(g, router, {P_onsubnet})}

\* network_connections: every two networks of one router are joined
network_connections(nets, attached) ==
    [n \in nets |-> UNION {attached[r] \ {n} : r \in {x \in DOMAIN attached : n \in attached[x]}}]

\* network_islands: get_reachable_networks of every network not yet processed,
\* the networks taken in the order `listed`
network_islands(listed, connections) ==
    LET RECURSIVE reachable(_)
        reachable(seen) ==
            LET more == seen \cup UNION {connections[n] : n \in seen}
            IN IF more = seen THEN seen ELSE reachable(more)
        RECURSIVE islands(_, _)
        islands(rest, processed_networks) ==
            IF rest = <<>> THEN <<>>
            ELSE IF rest[1] \in processed_networks
                 THEN islands(Tail(rest), processed_networks)
            ELSE <<reachable({rest[1]})>>
                 \o islands(Tail(rest), processed_networks \cup reachable({rest[1]}))
    IN islands(listed, {})

\* the findings about the members of one island, list(island) being `members`
unreachable_issues(g, vb, ord, members, total, island_count) ==
    LET name(n) == get_network_name(FirstObject(g, n, P_label, ord),
                                    FirstObject(g, n, P_netnumber, ord), n)
        issue(n) ==
            [issue_type |-> "unreachable-networks", severity |-> "high",
             network |-> n, network_name |-> name(n),
             isolation_type |-> IF Len(members) = 1 THEN "isolated" ELSE "partial",
             description |-> IF Len(members) = 1 THEN "is completely isolated"
                             ELSE "cannot reach other networks",
             total_networks |-> total,
             reachable_networks |-> Len(members) - 1,
             network_islands |-> island_count]
            @@ (IF Len(members) = 1 THEN <<>> ELSE [island_networks |-> members])
            @@ (IF vb THEN [verbose_description |-> "needs router connections"] ELSE <<>>)
    IN [i \in DOMAIN members |-> issue(members[i])]

unreachable_result(g, vb, ord, hashord, total, found) ==
    LET per == [k \in DOMAIN found |->
                  unreachable_issues(g, vb, ord, TermsInOrder(found[k], hashord),
                                     total, Len(found))]
    IN IF Len(found) > 1
       THEN <<Flatten(per), Flatten([k \in DOMAIN per |-> [i \in DOMAIN per[k] |-> per[k][i].network]])>>
       ELSE <<<<>>, <<>>>>

unreachable_islands(g, vb, ord, hashord, nets, attached) ==
    unreachable_result(g, vb, ord, hashord, Cardinality(nets),
        network_islands(TermsInOrder(nets, hashord), network_connections(nets, attached)))

\* returns issues, affected_nodes
check_unreachable_networks(g, vb, ord, hashord) ==
    LET typed(class) == {t[1] : t \in {u \in g : u[2] = P_type /\ u[3] = class}}
        attached == [r \in typed(C_Router) |-> router_networks(g, r)]
    IN IF Cardinality(typed(C_Network)) < 2 THEN Returned(<<<<>>, <<>>>>)
       ELSE Returned(unreachable_islands(g, vb, ord, hashord,
                        typed(C_Network) \cup UNION {attached[r] : r \in DOMAIN attached},
                        attached))

-----------------------------------------------------------------------------
(* network_loops.py *)

\* the (source, target, router) connections _build_network_graph_with_routers
\* walks through, in its order: per Router, per device-on-network, per
\* serves-network
router_edges(g, ord) ==
    LET pairs(r, src, tgt) ==
            Flatten([i \in DOMAIN src |-> [j \in DOMAIN tgt |-> <<src[i][3], tgt[j][3], r>>]])
        of(r) == pairs(r, TriplesSP(g, r, P_onnetwork, ord), TriplesSP(g, r, P_serves, ord))
        all(typed) == Flatten([k \in DOMAIN typed |-> of(typed[k][1])])
    IN all(TriplesPO(g, P_type, C_Router, ord))

\* network_graph: its keys in insertion order and the adjacency list of each
build_network_graph(edges) ==
    LET ends(e) == <<e[1], e[2]>>
        other(e, n) == IF e[1] = n THEN <<e[2]>> ELSE IF e[2] = n THEN <<e[1]>> ELSE <<>>
        keys == KeysInOrder(Flatten([i \in DOMAIN edges |-> ends(edges[i])]))
    IN [keys |-> keys,
        adj  |-> [n \in Range(keys) |->
                    KeysInOrder(Flatten([i \in DOMAIN edges |-> other(edges[i], n)]))]]

\* a depth cap that cuts the search one level earlier
too_deep_Early(depth) == depth > 4

\* if depth > 5: return []  (prevent infinite recursion)
too_deep(depth) == depth > 5

\* _find_cycles_union_find over the nodes all_nodes, with _dfs_cycle_detection;
\* min(cycle) compares the URIs as strings, which for the networks of the model
\* is their order in TermUniverse
find_cycles_union_find(all_nodes, adj) ==
    LET RECURSIVE dfs(_, _, _, _, _)
        RECURSIVE scan(_, _, _, _, _, _)
        dfs(node, visited, path, target, depth) ==
            IF too_deep(depth) \/ node \in visited THEN <<>>
            ELSE scan(1, adj[node], visited \cup {node}, Append(path, node), target, depth)
        scan(k, neighbors, visited, path, target, depth) ==
            IF k > Len(neighbors) THEN <<>>
            ELSE IF neighbors[k] = target /\ Len(path) >= 3 THEN path
            ELSE IF neighbors[k] \notin visited
                 THEN LET cycle == dfs(neighbors[k], visited, path, target, depth + 1)
                      IN IF cycle # <<>> THEN cycle
                         ELSE scan(k + 1, neighbors, visited, path, target, depth)
            ELSE scan(k + 1, neighbors, visited, path, target, depth)
        normalized(cycle) ==
            LET min_idx == CHOOSE i \in DOMAIN cycle : \A j \in DOMAIN cycle :
                               Position(TermUniverse, cycle[i]) <= Position(TermUniverse, cycle[j])
            IN SubSeq(cycle, min_idx, Len(cycle)) \o SubSeq(cycle, 1, min_idx - 1)
        RECURSIVE from(_, _, _)
        from(rest, cycles, visited_global) ==
            IF rest = <<>> THEN cycles
            ELSE IF rest[1] \in visited_global THEN from(Tail(rest), cycles, visited_global)
            ELSE LET cycle == dfs(rest[1], {}, <<>>, rest[1], 0)
                     fresh == /\ Len(cycle) >= 3
                              /\ \A k \in DOMAIN cycles : Range(cycles[k]) # Range(cycle)
                 IN from(Tail(rest),
                         IF fresh THEN Append(cycles, normalized(cycle)) ELSE cycles,
                         visited_global \cup {rest[1]}
                           \cup (IF fresh THEN Range(cycle) ELSE {}))
    IN IF Len(all_nodes) < 3 THEN <<>> ELSE from(all_nodes, <<>>, {})

\* the finding about the loop through `path`, with _find_routers_in_loop
network_loop_issue(path, loop_path, edges) ==
    LET next(i) == path[(i % Len(path)) + 1]
        joins(e, a, b) == (e[1] = a /\ e[2] = b) \/ (e[1] = b /\ e[2] = a)
        routers(a, b) ==
            Flatten([k \in DOMAIN edges |-> IF joins(edges[k], a, b) THEN <<edges[k][3]>> ELSE <<>>])
    IN [issue_type |-> "network-loops", severity |-> "critical",
        description |-> "Network loop detected",
        loop_size |-> Len(path), loop_path |-> loop_path,
        details |-> [networks_in_loop |-> path,
                     routers_causing_loop |->
                        KeysInOrder(Flatten([i \in DOMAIN path |-> routers(path[i], next(i))])),
                     broadcast_storm_risk |-> "high"]]

\* a check that has no special case for two networks
network_loops_result_CyclesOnly(network_graph, edges) ==
    LET reported(cycles) ==
            << [k \in DOMAIN cycles |-> network_loop_issue(cycles[k], cycles[k], edges)],
               <<>>, UNION {Range(cycles[k]) : k \in DOMAIN cycles} >>
    IN IF Len(network_graph.keys) < 2 THEN <<<<>>, <<>>, {}>>
       ELSE reported(find_cycles_union_find(network_graph.keys, network_graph.adj))

network_loops_result(network_graph, edges) ==
    LET net1 == network_graph.keys[1]
        net2 == network_graph.keys[2]
        mutual == /\ net2 \in Range(network_graph.adj[net1])
                  /\ net1 \in Range(network_graph.adj[net2])
        reported(cycles) ==
            << [k \in DOMAIN cycles |-> network_loop_issue(cycles[k], cycles[k], edges)],
               <<>>, UNION {Range(cycles[k]) : k \in DOMAIN cycles} >>
    IN IF Len(network_graph.keys) < 2 THEN <<<<>>, <<>>, {}>>
       ELSE IF Len(network_graph.keys) = 2
            THEN IF mutual
                 THEN << <<network_loop_issue(<<net1, net2>>, <<net1, net2, net1>>, edges)>>,
                         <<>>, {net1, net2} >>
                 ELSE <<<<>>, <<>>, {}>>
       ELSE reported(find_cycles_union_find(network_graph.keys, network_graph.adj))

network_loops_over(edges) == network_loops_result(build_network_graph(edges), edges)

\* returns issues, affected_triples, affected_nodes
check_network_loops(g, vb, ord) == Returned(network_loops_over(router_edges(g, ord)))

-----------------------------------------------------------------------------
(* duplicate_networks.py *)

\* a test that takes routers on any subnets for routers of one subnet
duplicate_kind_AnySubnet(all_subnets) ==
    IF Cardinality(all_subnets) >= 1 THEN "duplicate-router" ELSE "duplicate-network"

\* if len(all_subnets) == 1: 'duplicate-router' else: 'duplicate-network'
duplicate_kind(all_subnets) ==
    IF Cardinality(all_subnets) = 1 THEN "duplicate-router" ELSE "duplicate-network"

\* third pass: the finding about one network number, if several routers hold it
duplicate_network_issue(g, vb, ord, hashord, network, router_list, all_subnets) ==
    IF Len(router_list) > 1
    THEN [issues |->
            <<[issue_type |-> duplicate_kind(all_subnets), network |-> network,
               router_count |-> Len(router_list), routers |-> router_list,
               subnets |-> TermsInOrder(all_subnets, hashord),
               description |-> "Same network number on multiple routers"]>>,
          affected |->
            IF vb THEN Flatten([i \in DOMAIN router_list |->
                                  TriplesS(g, router_list[i].router, ord)])
            ELSE <<>>]
    ELSE [issues |-> <<>>, affected |-> <<>>]

\* second pass: network_to_routers, from the (network, router, subnets) entries
\* of the tracked routers in their order
duplicate_networks_grouped(g, vb, ord, hashord, entries) ==
    LET keys == KeysInOrder([i \in DOMAIN entries |-> entries[i][1]])
        about(n) == LET holds(e) == e[1] = n IN SelectSeq(entries, holds)
        listed(es) == [i \in DOMAIN es |-> [router |-> es[i][2], subnets |-> es[i][3]]]
        spanned(es) == UNION {Range(es[i][3]) : i \in DOMAIN es}
        found(es, n) == duplicate_network_issue(g, vb, ord, hashord, n, listed(es), spanned(es))
        both(per) == << Flatten([k \in DOMAIN per |-> per[k].issues]),
                        Flatten([k \in DOMAIN per |-> per[k].affected]) >>
    IN both([k \in DOMAIN keys |-> found(about(keys[k]), keys[k])])

\* returns issues, affected_triples ([], [] on any exception)
check_duplicate_networks(g, vb, ord, hashord) ==
    LET on(r) == Objects(TriplesSP(g, r, P_onnetwork, ord))
        subnets(r) == Objects(TriplesSP(g, r, P_onsubnet, ord))
        entries(r, nets, subs) == [j \in DOMAIN nets |-> <<nets[j], r, subs>>]
        all(typed) == Flatten([i \in DOMAIN typed |->
                                 entries(typed[i][1], on(typed[i][1]), subnets(typed[i][1]))])
    IN Returned(duplicate_networks_grouped(g, vb, ord, hashord,
                                           all(TriplesPO(g, P_type, C_Router, ord))))

-----------------------------------------------------------------------------
(* subnet_mismatches.py *)

\* s.split(sep)
RECURSIVE Split(_, _)
Split(s, sep) ==
    IF \A i \in 1..Len(s) : s[i] # sep THEN <<s>>
    ELSE LET cut == CHOOSE i \in 1..Len(s) :
                       s[i] = sep /\ \A j \in 1..(i - 1) : s[j] # sep
         IN <<SubSeq(s, 1, cut - 1)>> \o Split(SubSeq(s, cut + 1, Len(s)), sep)

\* ipaddress: one decimal octet of a dotted quad (1 to 3 digits, no leading
\* zero, at most 255)
parse_octet(o) ==
    IF /\ Len(o) \in 1..3
       /\ \A i \in 1..Len(o) : IsDigit(o[i])
       /\ (Len(o) > 1 => o[1] # "0")
       /\ DigitsValue(o, 0) <= 255
    THEN [ok |-> TRUE, val |-> DigitsValue(o, 0)]
    ELSE [ok |-> FALSE, val |-> 0]

\* ipaddress.ip_address(s) for a text without ':' (the IPv6 parser rejects
\* every such text): the four octets, or ok = FALSE for ValueError
ip_address_of(parts) ==
    IF Len(parts) = 4 /\ \A k \in 1..4 : parse_octet(parts[k]).ok
    THEN [ok |-> TRUE, octets |-> [k \in 1..4 |-> parse_octet(parts[k]).val]]
    ELSE [ok |-> FALSE, octets |-> <<0, 0, 0, 0>>]

ip_address(s) == ip_address_of(Split(s, "."))

\* bits of octet k (1..4) a prefix of length p covers
PrefixBits(p, k) ==
    IF p >= 8 * k THEN 8 ELSE IF p <= 8 * (k - 1) THEN 0 ELSE p - 8 * (k - 1)

\* the octets of the netmask of prefix length p
MaskOctets(p) == [k \in 1..4 |-> 256 - 2 ^ (8 - PrefixBits(p, k))]

\* _prefix_from_ip_string: a netmask, else a hostmask, else NetmaskValueError
prefix_from_ip(mask) ==
    IF ~mask.ok THEN [ok |-> FALSE, val |-> 0]
    ELSE IF \E p \in 0..32 : MaskOctets(p) = mask.octets
    THEN [ok |-> TRUE, val |-> CHOOSE p \in 0..32 : MaskOctets(p) = mask.octets]
    ELSE IF \E p \in 0..32 : MaskOctets(p) = [k \in 1..4 |-> 255 - mask.octets[k]]
    THEN [ok |-> TRUE,
          val |-> CHOOSE p \in 0..32 :
                     MaskOctets(p) = [k \in 1..4 |-> 255 - mask.octets[k]]]
    ELSE [ok |-> FALSE, val |-> 0]

\* _make_netmask(arg): _prefix_from_prefix_string, on failure
\* _prefix_from_ip_string
make_netmask(arg) ==
    IF Len(arg) > 0 /\ (\A i \in 1..Len(arg) : IsDigit(arg[i]))
       /\ DigitsValue(arg, 0) <= 32
    THEN [ok |-> TRUE, val |-> DigitsValue(arg, 0)]
    ELSE prefix_from_ip(ip_address(arg))

\* ipaddress.ip_network(cidr, strict=False) for a text without ':'
ip_network_of(addr) ==
    IF Len(addr) > 2 THEN [ok |-> FALSE, octets |-> <<0, 0, 0, 0>>, prefixlen |-> 0]
    ELSE [ok |-> ip_address(addr[1]).ok
                   /\ (Len(addr) = 2 => make_netmask(addr[2]).ok),
          octets |-> ip_address(addr[1]).octets,
          prefixlen |-> IF Len(addr) = 2 THEN make_netmask(addr[2]).val ELSE 32]

ip_network(cidr) == ip_network_of(Split(cidr, "/"))

\* the octets of an address under the netmask of prefix length p
Masked(octets, p) ==
    [k \in 1..4 |-> octets[k] - (octets[k] % (2 ^ (8 - PrefixBits(p, k))))]

\* ip in network
ip_in_network(ip, network) ==
    Masked(ip.octets, network.prefixlen) = Masked(network.octets, network.prefixlen)

\* _is_ip_in_subnet: True if the address is in the range, and True as well
\* when the address or the range does not parse
is_ip_in_subnet(ip_address_text, subnet_cidr) ==
    IF ip_address(ip_address_text).ok /\ ip_network(subnet_cidr).ok
    THEN ip_in_network(ip_address(ip_address_text), ip_network(subnet_cidr))
    ELSE TRUE

\* for _, _, value in graph.triples((s, p, None)): x = str(value)
LastOf(m) == IF m = <<>> THEN None ELSE PyStr(m[Len(m)][3])
LastObject(g, s, p, ord) == LastOf(TriplesSP(g, s, p, ord))

\* label = str(node); for ... in labels: label = str(value)
LabelOr(node, label_value) == IF label_value = None THEN node ELSE label_value[2]

\* subnet_info: the typed subnets with a truthy subnet-address
subnet_info(g, ord) ==
    {t[1] : t \in {u \in g : /\ u[2] = P_type /\ u[3] = C_Subnet
                             /\ Truthy(LastObject(g, u[1], P_subnetaddr, ord))}}

\* the issue of one device already found outside its subnet's range
subnet_mismatch_issue(g, vb, ord, device, device_address, device_subnet, network) ==
    [issue_type |-> "subnet-mismatches",
     severity |-> "medium",
     device |-> device,
     device_label |-> LabelOr(device, LastObject(g, device, P_label, ord)),
     device_instance |-> LastObject(g, device, P_instance, ord),
     device_address |-> device_address,
     subnet |-> device_subnet,
     subnet_label |-> LabelOr(device_subnet, LastObject(g, device_subnet, P_label, ord)),
     subnet_address |-> LastObject(g, device_subnet, P_subnetaddr, ord)[2],
     verbose_details |->
        IF ~vb THEN None
        ELSE IF ~Truthy(network) THEN PyStr(S_Unknown)
        ELSE IF FirstObject(g, network[2], P_label, ord) \in {None, PyStr(S_Unknown)}
        THEN PyStr(network[2])
        ELSE FirstObject(g, network[2], P_label, ord)]

\* the body of the device loop: the issues of one device (none or one)
subnet_mismatch_of(g, vb, ord, device, device_address, device_subnet) ==
    IF /\ Truthy(device_address)
       /\ Truthy(device_subnet)
       /\ device_subnet[2] \in subnet_info(g, ord)
       /\ ~is_ip_in_subnet(device_address[2],
                           LastObject(g, device_subnet[2], P_subnetaddr, ord)[2])
    THEN << subnet_mismatch_issue(g, vb, ord, device, device_address[2],
                                  device_subnet[2],
                                  LastObject(g, device_subnet[2], P_subnetof, ord)) >>
    ELSE <<>>

\* returns issues, affected_nodes
check_subnet_mismatches(g, vb, ord) ==
    LET found(typed) ==
            [i \in DOMAIN typed |->
               subnet_mismatch_of(g, vb, ord, typed[i][1],
                                  LastObject(g, typed[i][1], P_address, ord),
                                  LastObject(g, typed[i][1], P_onsubnet, ord))]
        findings(typed) == PerDevice(typed, found(typed))
    IN Returned(findings(TriplesPO(g, P_type, C_Device, ord)))

-----------------------------------------------------------------------------
(* oversized_networks.py *)

UpperChars == <<"A","B","C","D","E","F","G","H","I","J","K","L","M",
                "N","O","P","Q","R","S","T","U","V","W","X","Y","Z">>
LowerChars == <<"a","b","c","d","e","f","g","h","i","j","k","l","m",
                "n","o","p","q","r","s","t","u","v","w","x","y","z">>

\* s.lower()
Lower(s) ==
    [i \in DOMAIN s |->
       IF \E k \in 1..26 : UpperChars[k] = s[i]
       THEN LowerChars[CHOOSE k \in 1..26 : UpperChars[k] = s[i]]
       ELSE s[i]]

\* the if/elif chain over one lowered text: the type it names, "" for none
type_named(text, mstp_words, ip_words, arcnet_words, ptp_words) ==
    IF \E w \in mstp_words : Contains(text, w) THEN "mstp"
    ELSE IF \E w \in ip_words : Contains(text, w) THEN "ip"
    ELSE IF \E w \in arcnet_words : Contains(text, w) THEN "arcnet"
    ELSE IF \E w \in ptp_words : Contains(text, w) THEN "ptp"
    ELSE ""

\* for ... in graph.triples(...): if ...: return ...   (the first value that
\* names a type decides)
first_named(kinds) ==
    IF \A i \in DOMAIN kinds : kinds[i] = "" THEN ""
    ELSE kinds[CHOOSE i \in DOMAIN kinds :
                  kinds[i] # "" /\ \A j \in 1..(i - 1) : kinds[j] = ""]

\* Method 1: the network-type values
type_by_property(values) ==
    first_named([i \in DOMAIN values |->
       type_named(Lower(values[i]),
                  {<<"m","s","t","p">>, <<"m","a","s","t","e","r","-","s","l","a","v","e">>,
                   <<"t","o","k","e","n","-","p","a","s","s","i","n","g">>},
                  {<<"i","p">>, <<"e","t","h","e","r","n","e","t">>,
                   <<"b","a","c","n","e","t","/","i","p">>},
                  {<<"a","r","c","n","e","t">>},
                  {<<"p","t","p">>,
                   <<"p","o","i","n","t","-","t","o","-","p","o","i","n","t">>})])

\* Method 2: the labels
type_by_label(values) ==
    first_named([i \in DOMAIN values |->
       type_named(Lower(values[i]),
                  {<<"m","s","t","p">>, <<"m","a","s","t","e","r","-","s","l","a","v","e">>,
                   <<"t","o","k","e","n">>},
                  {<<"i","p">>, <<"e","t","h","e","r","n","e","t">>, <<"t","c","p">>},
                  {<<"a","r","c","n","e","t">>},
                  {<<"p","t","p">>,
                   <<"p","o","i","n","t","-","t","o","-","p","o","i","n","t">>})])

\* Method 3: the URI
type_by_uri(network) ==
    type_named(Lower(network),
               {<<"m","s","t","p">>, <<"m","a","s","t","e","r","-","s","l","a","v","e">>},
               {<<"i","p">>, <<"e","t","h","e","r","n","e","t">>},
               {<<"a","r","c","n","e","t">>},
               {<<"p","t","p">>})

\* four parts that int() accepts (the range test's result is dropped)
four_ints(parts) == Len(parts) = 4 /\ \A k \in 1..4 : ParseInt(parts[k]).ok

\* Method 4, one sampled address: "ip", "numeric" or ""
address_kind(addr) ==
    IF /\ \E i \in 1..Len(addr) : addr[i] = "."
       /\ \E i \in 1..Len(addr) : IsDigit(addr[i])
       /\ \/ four_ints(Split(addr, "."))
          \/ /\ Len(Split(addr, ".")) # 4
             /\ \E i \in 1..Len(addr) : addr[i] = ":"
             /\ four_ints(Split(Split(addr, ":")[1], "."))
    THEN "ip"
    ELSE IF /\ Len(addr) > 0
            /\ \A i \in 1..Len(addr) : IsDigit(addr[i])
            /\ DigitsValue(addr, 0) \in 1..127
    THEN "numeric"
    ELSE ""

\* Method 4: the verdict over the sampled kinds (device_addresses[:10])
type_by_addresses(kinds) ==
    LET ip_addresses == Cardinality({i \in DOMAIN kinds : kinds[i] = "ip"})
        numeric_addresses == Cardinality({i \in DOMAIN kinds : kinds[i] = "numeric"})
    IN IF ip_addresses > numeric_addresses THEN "ip"
       ELSE IF numeric_addresses > 0 /\ numeric_addresses >= ip_addresses THEN "mstp"
       ELSE "other"

\* device_addresses[:10], the devices listed in set order
sampled_addresses(g, devices, ord, hashord) ==
    LET addresses(listed) ==
            Flatten([i \in DOMAIN listed |->
                       Objects(TriplesSP(g, listed[i], P_address, ord))])
        sample(all) == SubSeq(all, 1, IF Len(all) < 10 THEN Len(all) ELSE 10)
    IN sample(CHOOSE all \in {addresses(listed) :
                               listed \in {TermsInOrder(devices, hashord)}} : TRUE)

\* _detect_network_type
detect_network_type(g, network, devices, ord, hashord) ==
    LET by_property == type_by_property(Objects(TriplesSP(g, network, P_nettype, ord)))
        by_label    == type_by_label(Objects(TriplesSP(g, network, P_label, ord)))
        by_uri      == type_by_uri(network)
        kinds(sample) == [i \in DOMAIN sample |-> address_kind(sample[i])]
    IN IF by_property # "" THEN by_property
       ELSE IF by_label # "" THEN by_label
       ELSE IF by_uri # "" THEN by_uri
       ELSE type_by_addresses(kinds(sampled_addresses(g, devices, ord, hashord)))

\* _get_thresholds_for_type: (warning_threshold, critical_threshold)
get_thresholds_for_type(network_type) ==
    CASE network_type = "mstp" -> <<15, 30>>
      [] network_type = "ip" -> <<50, 100>>
      [] network_type = "ethernet" -> <<50, 100>>
      [] network_type = "arcnet" -> <<15, 25>>
      [] network_type = "ptp" -> <<2, 3>>
      [] OTHER -> <<25, 50>>

\* a ladder whose warning step starts one device above the warning threshold
oversized_level_Gap(device_count, thresholds) ==
    IF device_count >= thresholds[2] THEN "critical"
    ELSE IF device_count > thresholds[1] THEN "warning"
    ELSE ""

\* if device_count >= critical_threshold: ... elif device_count >=
\* warning_threshold: ... else: continue
oversized_level(device_count, thresholds) ==
    IF device_count >= thresholds[2] THEN "critical"
    ELSE IF device_count >= thresholds[1] THEN "warning"
    ELSE ""

\* _get_device_breakdown
get_device_breakdown(listed) ==
    [total_devices |-> Len(listed),
     sample_devices |-> [i \in 1..(IF Len(listed) < 10 THEN Len(listed) ELSE 10) |->
                           LastSegment(listed[i])],
     truncated |-> Len(listed) > 10]

\* the issue of one network found at a level (the description, the
\* recommendation and the verbose description are texts built from the
\* type, the count and the thresholds)
oversized_issue(g, vb, ord, hashord, network, devices, network_type, thresholds, level) ==
    [issue_type |-> IF level = "critical" THEN "oversized-networks-critical"
                    ELSE "oversized-networks-warning",
     severity |-> level,
     network |-> network,
     network_name |-> get_network_name(FirstObject(g, network, P_label, ord),
                                       FirstObject(g, network, P_netnumber, ord),
                                       network),
     network_type |-> network_type,
     device_count |-> Cardinality(devices),
     threshold |-> IF level = "critical" THEN thresholds[2] ELSE thresholds[1],
     details |-> [warning_threshold |-> thresholds[1],
                  critical_threshold |-> thresholds[2],
                  performance_impact |-> IF level = "critical" THEN "severe" ELSE "moderate",
                  device_breakdown |->
                     IF vb THEN <<get_device_breakdown(TermsInOrder(devices, hashord))>>
                     ELSE <<>>]]

\* the body of the loop over network_device_counts.items()
oversized_network(g, vb, ord, hashord, network, devices, network_type) ==
    IF oversized_level(Cardinality(devices), get_thresholds_for_type(network_type)) = ""
    THEN <<>>
    ELSE << oversized_issue(g, vb, ord, hashord, network, devices, network_type,
                            get_thresholds_for_type(network_type),
                            oversized_level(Cardinality(devices),
                                            get_thresholds_for_type(network_type))) >>

\* the (device, network) pairs in the order the two counting loops add them
counted_pairs(g, ord, typed) ==
    LET counts(t) == t[3] \in typed
        through(m) == Flatten([i \in DOMAIN m |->
                        [k \in DOMAIN TriplesSP(g, m[i][3], P_subnetof, ord) |->
                           <<m[i][1], P_subnetof,
                             TriplesSP(g, m[i][3], P_subnetof, ord)[k][3]>>]])
    IN SelectSeq(TriplesP(g, P_onnetwork, ord), counts)
       \o SelectSeq(through(TriplesP(g, P_onsubnet, ord)), counts)

oversized_over(g, vb, ord, hashord, pairs) ==
    LET counted(network) == {t[1] : t \in {u \in Range(pairs) : u[3] = network}}
        typed(network, devices) ==
            <<devices, detect_network_type(g, network, devices, ord, hashord)>>
        one(network) ==
            CHOOSE found \in
              {oversized_network(g, vb, ord, hashord, network, c[1], c[2]) :
                 c \in {typed(network, devices) : devices \in {counted(network)}}} : TRUE
        keys(listed) == Flatten([k \in DOMAIN listed |-> one(listed[k])])
        result(issues) == << issues, {issues[i].network : i \in DOMAIN issues} >>
    IN result(keys(KeysInOrder(Objects(pairs))))

\* returns issues, affected_nodes (a set)
check_oversized_networks(g, vb, ord, hashord) ==
    LET typed == {t[1] : t \in {u \in g : u[2] = P_type /\ u[3] = C_Network}}
    IN IF typed = {} THEN Returned(<< <<>>, {} >>)
       ELSE Returned(CHOOSE r \in {oversized_over(g, vb, ord, hashord, pairs) :
                                     pairs \in {counted_pairs(g, ord, typed)}} : TRUE)

-----------------------------------------------------------------------------
(* broadcast_domains.py *)

\* addr.split(':')[0] if ':' in addr else addr
ip_part(addr) ==
    IF \E i \in 1..Len(addr) : addr[i] = ":" THEN Split(addr, ":")[1] ELSE addr

\* '.' in ip_part and any(c.isdigit() for c in ip_part)
looks_like_ip(part) ==
    /\ \E i \in 1..Len(part) : part[i] = "."
    /\ \E i \in 1..Len(part) : IsDigit(part[i])

\* _extract_ip_ranges: the /24 network of every address IPv4Address accepts
\* (a range is kept as the four octets of its network address)
extract_ip_ranges(addresses) ==
    LET parsed(a) == ip_address(ip_part(a))
        valid == {a \in addresses : looks_like_ip(ip_part(a)) /\ parsed(a).ok}
    IN {Masked(parsed(a).octets, 24) : a \in valid}

\* _determine_broadcast_scope
determine_broadcast_scope(ip_ranges) ==
    IF ip_ranges = {} THEN "local"
    ELSE IF Cardinality(ip_ranges) = 1 THEN "subnet"
    ELSE IF Cardinality(ip_ranges) <= 3 THEN "moderate"
    ELSE "wide"

\* list(a set of ranges): the ranges in hash order
RangesInOrder(S, hashord) ==
    Oriented(ByRank(S, [r \in S |-> ((r[1] * 256 + r[2]) * 256 + r[3]) * 256 + r[4]]), hashord)

\* _analyze_broadcast_domains: the domain_info of one network
domain_info(g, network, subnets, bbmds, hashord) ==
    LET mine == {t[1] : t \in {u \in g : u[2] = P_subnetof /\ u[3] = network
                                         /\ u[1] \in subnets}}
        devices_set ==
            {t[1] : t \in {u \in g : u[2] = P_onnetwork /\ u[3] = network}}
            \cup {t[1] : t \in {u \in g : u[2] = P_onsubnet /\ u[3] \in mine}}
        bbmds_set ==
            {t[1] : t \in {u \in g : u[2] = P_bbmdonsubnet /\ u[3] \in mine
                                     /\ u[1] \in bbmds}}
        info(network_subnets, devices, ip_ranges) ==
            [network |-> network,
             subnets |-> TermsInOrder(network_subnets, hashord),
             subnet_count |-> Cardinality(network_subnets),
             devices |-> devices,
             bbmds |-> bbmds_set,
             ip_ranges |-> ip_ranges,
             broadcast_scope |-> determine_broadcast_scope(ip_ranges),
             device_count |-> Cardinality(devices)]
        addresses(devices) == {t[3] : t \in {u \in g : u[2] = P_address /\ u[1] \in devices}}
    IN CHOOSE d \in {info(p[1], p[2], extract_ip_ranges(addresses(p[2]))) :
                       p \in {<<mine, devices_set>>}} : TRUE

\* domains, its keys in insertion order: for network in networks
analyze_broadcast_domains(g, typed, subnets, bbmds, hashord) ==
    LET listed == TermsInOrder(typed, hashord)
    IN [k \in DOMAIN listed |-> domain_info(g, listed[k], subnets, bbmds, hashord)]

SUBNET_WARNING_THRESHOLD == 5
SUBNET_CRITICAL_THRESHOLD == 10
DEVICE_WARNING_THRESHOLD == 200
DEVICE_CRITICAL_THRESHOLD == 500

\* _check_large_broadcast_domains
check_large_broadcast_domains(domains, vb) ==
    LET critical(d) == \/ d.subnet_count >= SUBNET_CRITICAL_THRESHOLD
                       \/ d.device_count >= DEVICE_CRITICAL_THRESHOLD
        warning(d) == \/ d.subnet_count >= SUBNET_WARNING_THRESHOLD
                      \/ d.device_count >= DEVICE_WARNING_THRESHOLD
        issue(d, severity) ==
            [issue_type |-> IF severity = "critical" THEN "broadcast-domain-critical"
                            ELSE "broadcast-domain-warning",
             severity |-> severity,
             network |-> d.network, network_name |-> LastSegment(d.network),
             subnet_count |-> d.subnet_count, device_count |-> d.device_count,
             broadcast_scope |-> d.broadcast_scope,
             description |-> "Large broadcast domain",
             details |-> [subnet_threshold |-> IF severity = "warning"
                                               THEN SUBNET_WARNING_THRESHOLD
                                               ELSE SUBNET_CRITICAL_THRESHOLD,
                          device_threshold |-> IF severity = "warning"
                                               THEN DEVICE_WARNING_THRESHOLD
                                               ELSE DEVICE_CRITICAL_THRESHOLD,
                          affected_subnets |-> d.subnets]]
            @@ (IF vb THEN [verbose_description |-> "Broadcast domain spans subnets"] ELSE <<>>)
        of(d) == IF critical(d) THEN <<issue(d, "critical")>>
                 ELSE IF warning(d) THEN <<issue(d, "warning")>>
                 ELSE <<>>
    IN Flatten([k \in DOMAIN domains |-> of(domains[k])])

\* a need for a BBMD that looks at subnets and IP ranges only
needs_bbmd_FewDevices(subnet_count, device_count, scope, ip_ranges) ==
    \/ subnet_count > 2
    \/ scope \in {"moderate", "wide"}
    \/ Cardinality(ip_ranges) > 1

\* needs_bbmd
needs_bbmd(subnet_count, device_count, scope, ip_ranges) ==
    \/ subnet_count > 2
    \/ device_count > 100
    \/ scope \in {"moderate", "wide"}
    \/ Cardinality(ip_ranges) > 1

\* _check_missing_bbmd_coverage
check_missing_bbmd_coverage(domains, vb) ==
    LET issue(d) ==
            [issue_type |-> "missing-bbmd-coverage", severity |-> "warning",
             network |-> d.network, network_name |-> LastSegment(d.network),
             subnet_count |-> d.subnet_count, device_count |-> d.device_count,
             broadcast_scope |-> d.broadcast_scope,
             description |-> "Missing BBMD coverage for complex broadcast domain",
             details |-> [affected_subnets |-> d.subnets,
                          performance_risk |->
                            "Broadcast storms and inefficient device discovery"]]
            @@ (IF vb THEN [verbose_description |-> "lacks BBMD coverage"] ELSE <<>>)
        of(d) ==
            IF /\ needs_bbmd(d.subnet_count, d.device_count, d.broadcast_scope, d.ip_ranges)
               /\ Cardinality(d.bbmds) = 0
            THEN <<issue(d)>> ELSE <<>>
    IN Flatten([k \in DOMAIN domains |-> of(domains[k])])

\* _check_inefficient_bbmd_placement: a placeholder that finds nothing
check_inefficient_bbmd_placement(domains, bbmds, vb) == <<>>

\* _check_broadcast_domain_overlap: an IP range that several domains share
check_broadcast_domain_overlap(domains, vb, hashord) ==
    LET listed(d) == RangesInOrder(d.ip_ranges, hashord)
        ranges == KeysInOrder(Flatten([k \in DOMAIN domains |-> listed(domains[k])]))
        sharing(r) ==
            Flatten([k \in DOMAIN domains |->
                       IF r \in domains[k].ip_ranges THEN <<domains[k].network>> ELSE <<>>])
        issue(r, domain_list) ==
            [issue_type |-> "broadcast-domain-overlap", severity |-> "warning",
             ip_range |-> r,
             overlapping_domains |-> [k \in DOMAIN domain_list |-> LastSegment(domain_list[k])],
             domain_count |-> Len(domain_list),
             description |-> "Broadcast domain overlap",
             details |-> [affected_networks |-> domain_list,
                          conflict_risk |->
                            "Potential broadcast conflicts and address confusion"]]
            @@ (IF vb THEN [verbose_description |-> "have overlapping broadcast domains"]
                ELSE <<>>)
        of(r) == IF Len(sharing(r)) > 1 THEN <<issue(r, sharing(r))>> ELSE <<>>
    IN Flatten([k \in DOMAIN ranges |-> of(ranges[k])])

\* affected_nodes: network, subnet and details.affected_networks of every issue
broadcast_affected_nodes(issues) ==
    LET top(i, key) == IF key \in DOMAIN i THEN {i[key]} ELSE {}
        inner(i) == IF "affected_networks" \in DOMAIN i.details
                    THEN Range(i.details.affected_networks) ELSE {}
        of(i) == top(i, "network") \cup top(i, "subnet") \cup inner(i)
    IN UNION {of(issues[k]) : k \in DOMAIN issues}

\* returns issues, affected_nodes
check_broadcast_domains(g, vb, ord, hashord) ==
    LET subjects(class) == {t[1] : t \in {u \in g : u[2] = P_type /\ u[3] = class}}
        bbmds == subjects(C_BBMD)
        issues(domains) ==
            check_large_broadcast_domains(domains, vb)
            \o check_missing_bbmd_coverage(domains, vb)
            \o check_inefficient_bbmd_placement(domains, bbmds, vb)
            \o check_broadcast_domain_overlap(domains, vb, hashord)
        result(found) == <<found, broadcast_affected_nodes(found)>>
    IN Returned(CHOOSE r \in {result(i) :
                   i \in {issues(d) :
                            d \in {analyze_broadcast_domains(g, subjects(C_Network),
                                      subjects(C_Subnet), bbmds, hashord)}}} : TRUE)

-----------------------------------------------------------------------------
(* routing_inefficiencies.py *)

\* router_networks[router], router_serves[router]: the BACnetNetworks the
\* router is on (p device-on-network) or serves (p serves-network)
router_set(g, router, p, typed) ==
    {t[3] : t \in {u \in g : u[1] = router /\ u[2] = p /\ u[3] \in typed}}

\* the (on_network, served_network) pairs of the connectivity loop, in the
\* order it meets them: on_network != served_network
connection_pairs(g, keyed, typed, hashord) ==
    LET on(r) == TermsInOrder(router_set(g, r, P_onnetwork, typed), hashord)
        served(r) == TermsInOrder(router_set(g, r, P_serves, typed), hashord)
        row(a, s) == Flatten([k \in DOMAIN s |-> IF a # s[k] THEN <<<<a, s[k]>>>> ELSE <<>>])
        rows(o, s) == Flatten([i \in DOMAIN o |-> row(o[i], s)])
    IN Flatten([k \in DOMAIN keyed |-> rows(on(keyed[k]), served(keyed[k]))])

\* a connectivity map that records a connection at its on_network only
routing_connections_OneWay(pairs, typed) ==
    [n \in typed |-> {q[2] : q \in {p \in Range(pairs) : p[1] = n}}]

\* network_connections[on].add(served); network_connections[served].add(on)
routing_connections(pairs, typed) ==
    [n \in typed |-> {q[2] : q \in {p \in Range(pairs) : p[1] = n}}
                     \cup {q[1] : q \in {p \in Range(pairs) : p[2] = n}}]

\* _build_routing_graph: the dicts with their keys in insertion order
build_routing_graph(g, routers, typed, ord, hashord) ==
    LET listed == TermsInOrder(routers, hashord)
        on(r) == router_set(g, r, P_onnetwork, typed)
        placed(r) == on(r) # {}
        known(n) == n \in typed
        attached(r) == SelectSeq(Objects(TriplesSP(g, r, P_onnetwork, ord)), known)
        ends(p) == <<p[1], p[2]>>
        built(keyed, pairs) ==
            [routers |-> keyed,
             on |-> [r \in Range(keyed) |-> on(r)],
             router_serves |-> [r \in Range(keyed) |-> router_set(g, r, P_serves, typed)],
             network_routers |->
                [keys |-> KeysInOrder(Flatten([k \in DOMAIN listed |-> attached(listed[k])])),
                 of |-> [n \in typed |-> {r \in routers : n \in on(r)}]],
             network_connections |->
                [keys |-> KeysInOrder(Flatten([k \in DOMAIN pairs |-> ends(pairs[k])])),
                 of |-> routing_connections(pairs, typed)],
             all_routers |-> routers,
             all_networks |-> typed]
    IN CHOOSE b \in {built(p[1], p[2]) :
                       p \in {<<k, connection_pairs(g, k, typed, hashord)>> :
                                k \in {SelectSeq(listed, placed)}}} : TRUE

\* for x in network_connections.get(network, set())
connected_to(rg, network, hashord) ==
    TermsInOrder(rg.network_connections.of[network], hashord)

Least(a, b) == IF a <= b THEN a ELSE b

\* dfs_cycle_detect from every network not yet visited: loops_found.
\* rec_stack holds exactly the networks of path
routing_loops_found(rg, hashord) ==
    LET closed(path, c) == SubSeq(path, Position(path, c), Len(path)) \o <<c>>
        RECURSIVE dfs_cycle_detect(_, _, _), scan(_, _, _, _), from(_, _, _)
        dfs_cycle_detect(network, path, st) ==
            scan(connected_to(rg, network, hashord), 1, Append(path, network),
                 [st EXCEPT !.visited = @ \cup {network}])
        scan(nb, k, path, st) ==
            IF k > Len(nb) THEN st
            ELSE IF nb[k] \notin st.visited
                 THEN CHOOSE r \in {scan(nb, k + 1, path, s) :
                                      s \in {dfs_cycle_detect(nb[k], path, st)}} : TRUE
            ELSE IF nb[k] \in Range(path) /\ Len(closed(path, nb[k])) > 2
                 THEN scan(nb, k + 1, path,
                           [st EXCEPT !.loops = Append(@, closed(path, nb[k]))])
            ELSE scan(nb, k + 1, path, st)
        from(all, k, st) ==
            IF k > Len(all) THEN st
            ELSE IF all[k] \in st.visited THEN from(all, k + 1, st)
            ELSE CHOOSE r \in {from(all, k + 1, s) :
                                 s \in {dfs_cycle_detect(all[k], <<>>, st)}} : TRUE
    IN from(TermsInOrder(rg.all_networks, hashord), 1,
            [visited |-> {}, loops |-> <<>>]).loops

\* loop[min_idx:-1] + loop[:min_idx] + [loop[min_idx]]; min() compares the
\* URIs as strings, which for the networks here is their TermUniverse order
normalized_loop(loop) ==
    LET body == SubSeq(loop, 1, Len(loop) - 1)
        least == CHOOSE x \in Range(body) :
                   \A y \in Range(body) : Position(TermUniverse, x) <= Position(TermUniverse, y)
        min_idx == CHOOSE i \in DOMAIN loop :
                     loop[i] = least /\ \A j \in 1..(i - 1) : loop[j] # least
    IN SubSeq(loop, min_idx, Len(loop) - 1) \o SubSeq(loop, 1, min_idx - 1)
       \o <<loop[min_idx]>>

routing_loop_issue(rg, loop, vb, hashord) ==
    LET loop_networks == Range(SubSeq(loop, 1, Len(loop) - 1))
        hop(r, i) == loop[i] \in rg.on[r] /\ loop[i + 1] \in rg.router_serves[r]
        loop_routers == {r \in Range(rg.routers) : \E i \in 1..(Len(loop) - 1) : hop(r, i)}
    IN [issue_type |-> "routing-loop",
        severity |-> IF Cardinality(loop_networks) <= 4 THEN "critical" ELSE "warning",
        loop_length |-> Cardinality(loop_networks),
        description |-> "Routing loop detected",
        details |-> [loop_networks |-> TermsInOrder(loop_networks, hashord),
                     loop_routers |-> TermsInOrder(loop_routers, hashord),
                     loop_path |-> loop,
                     routing_risk |-> "Potential for broadcast storms and routing instability"]]
       @@ (IF vb THEN [verbose_description |-> "Routing loop detected involving networks"]
           ELSE <<>>)

\* _check_routing_loops: one issue per loop signature not yet processed
check_routing_loops(rg, vb, hashord) ==
    LET issues(processed) ==
            [k \in DOMAIN processed |-> routing_loop_issue(rg, processed[k], vb, hashord)]
        signatures(found) == KeysInOrder([k \in DOMAIN found |-> normalized_loop(found[k])])
    IN CHOOSE r \in {issues(p) : p \in {signatures(f) : f \in {routing_loops_found(rg, hashord)}}} : TRUE

\* the BFS of one source: paths[target] in the order distances was filled
shortest_paths(rg, source, hashord) ==
    LET tip(path) == path[Len(path)]
        reached(found) == {tip(found[i]) : i \in DOMAIN found}
        RECURSIVE scan(_, _, _, _), expand(_, _)
        scan(nb, k, path, found) ==
            IF k > Len(nb) THEN found
            ELSE scan(nb, k + 1, path,
                      IF nb[k] \in reached(found) THEN found
                      ELSE Append(found, Append(path, nb[k])))
        expand(found, head) ==
            IF head > Len(found) THEN found
            ELSE CHOOSE r \in {expand(f, head + 1) :
                    f \in {scan(connected_to(rg, tip(found[head]), hashord), 1,
                                found[head], found)}} : TRUE
    IN expand(<<<<source>>>>, 1)

\* a threshold that already flags paths of four hops
long_path_FromFour(distance) == distance >= 4

\* if distance > 4
long_path(distance) == distance > 4

suboptimal_path_issue(path, vb) ==
    [issue_type |-> "suboptimal-routing-path", severity |-> "warning",
     source_network |-> path[1], target_network |-> path[Len(path)],
     path_length |-> Len(path) - 1,
     description |-> "Long routing path",
     details |-> [routing_path |-> path, networks |-> path]]
    @@ (IF vb THEN [verbose_description |-> "Routing path requires hops"] ELSE <<>>)

\* _check_suboptimal_paths
check_suboptimal_paths(rg, vb, hashord) ==
    LET sources == TermsInOrder(rg.all_networks, hashord)
        long(path) == long_path(Len(path) - 1)
        flagged(paths) ==
            LET far == SelectSeq(paths, long)
            IN [k \in DOMAIN far |-> suboptimal_path_issue(far[k], vb)]
        of(source) ==
            CHOOSE r \in {flagged(p) : p \in {shortest_paths(rg, source, hashord)}} : TRUE
    IN Flatten([k \in DOMAIN sources |-> of(sources[k])])

\* _check_router_isolation
check_router_isolation(rg, vb, hashord) ==
    LET keys == rg.network_routers.keys
        only(network) == CHOOSE r \in rg.network_routers.of[network] : TRUE
        issue(network) ==
            [issue_type |-> "router-single-point-failure", severity |-> "warning",
             router |-> only(network), network |-> network,
             connected_networks_count |-> Cardinality(rg.network_connections.of[network]),
             description |-> "Single router failure point",
             details |-> [connected_networks |-> connected_to(rg, network, hashord),
                          routers |-> <<only(network)>>,
                          availability_risk |-> "Single point of failure in network topology"]]
            @@ (IF vb THEN [verbose_description |-> "is the only routing connection"] ELSE <<>>)
        of(network) ==
            IF /\ Cardinality(rg.network_routers.of[network]) = 1
               /\ Cardinality(rg.network_connections.of[network]) > 1
            THEN <<issue(network)>> ELSE <<>>
    IN Flatten([k \in DOMAIN keys |-> of(keys[k])])

\* _check_asymmetric_routing
check_asymmetric_routing(rg, vb, hashord) ==
    LET keys == rg.network_connections.keys
        issue(a, b) ==
            [issue_type |-> "asymmetric-routing", severity |-> "warning",
             source_network |-> a, target_network |-> b,
             description |-> "Asymmetric routing",
             details |-> [networks |-> <<a, b>>,
                          connectivity_risk |->
                            "Partial network reachability may cause communication failures"]]
            @@ (IF vb THEN [verbose_description |-> "Asymmetric routing detected"] ELSE <<>>)
        pair(a, b) == IF a \notin rg.network_connections.of[b] THEN <<issue(a, b)>> ELSE <<>>
        row(a, nb) == Flatten([k \in DOMAIN nb |-> pair(a, nb[k])])
    IN Flatten([k \in DOMAIN keys |-> row(keys[k], connected_to(rg, keys[k], hashord))])

\* an articulation test without the case of the root of the DFS tree
is_articulation_Inner(is_root, children, low_v, disc_u) ==
    ~is_root /\ low_v >= disc_u

\* u is root and has more than one child, or u is not root and low[v] >= disc[u]
is_articulation(is_root, children, low_v, disc_u) ==
    \/ is_root /\ children > 1
    \/ ~is_root /\ low_v >= disc_u

\* find_articulation_points: bridge_util from every network not yet visited
find_articulation_points(rg, hashord) ==
    LET RECURSIVE bridge_util(_, _, _), walk(_, _, _, _, _, _), from(_, _, _)
        back(u, par, children, v, s) ==
            [s EXCEPT !.low[u] = Least(s.low[u], s.low[v]),
                      !.articulation_points =
                          IF is_articulation(par = None, children, s.low[v], s.disc[u])
                          THEN @ \cup {u} ELSE @]
        bridge_util(u, par, st) ==
            walk(connected_to(rg, u, hashord), 1, u, par, 0,
                 [st EXCEPT !.visited = @ \cup {u}, !.disc[u] = st.time,
                            !.low[u] = st.time, !.time = @ + 1])
        walk(nb, k, u, par, children, st) ==
            IF k > Len(nb) THEN st
            ELSE IF nb[k] \notin st.visited
                 THEN CHOOSE r \in {walk(nb, k + 1, u, par, children + 1, b) :
                        b \in {back(u, par, children + 1, nb[k], s) :
                                 s \in {bridge_util(nb[k], u, st)}}} : TRUE
            ELSE IF nb[k] # par
                 THEN walk(nb, k + 1, u, par, children,
                           [st EXCEPT !.low[u] = Least(@, st.disc[nb[k]])])
            ELSE walk(nb, k + 1, u, par, children, st)
        from(all, k, st) ==
            IF k > Len(all) THEN st
            ELSE IF all[k] \in st.visited THEN from(all, k + 1, st)
            ELSE CHOOSE r \in {from(all, k + 1, s) :
                                 s \in {bridge_util(all[k], None, st)}} : TRUE
    IN from(TermsInOrder(rg.all_networks, hashord), 1,
            [visited |-> {}, disc |-> [n \in rg.all_networks |-> 0],
             low |-> [n \in rg.all_networks |-> 0], time |-> 0,
             articulation_points |-> {}]).articulation_points

\* _check_missing_redundancy
check_missing_redundancy(rg, vb, hashord) ==
    LET issue(critical_network) ==
            [issue_type |-> "missing-redundancy", severity |-> "warning",
             network |-> critical_network,
             connected_networks_count |->
                Cardinality(rg.network_connections.of[critical_network]),
             description |-> "Critical network lacks redundancy",
             details |-> [networks |-> <<critical_network>>,
                          connected_networks |-> connected_to(rg, critical_network, hashord),
                          availability_risk |->
                            "Single point of failure in network connectivity"]]
            @@ (IF vb THEN [verbose_description |-> "is a critical connection point"] ELSE <<>>)
        issues(points) == [k \in DOMAIN points |-> issue(points[k])]
    IN IF Cardinality(rg.all_networks) > 2
       THEN CHOOSE r \in {issues(TermsInOrder(ap, hashord)) :
                            ap \in {find_articulation_points(rg, hashord)}} : TRUE
       ELSE <<>>

\* affected_nodes: router, network, details.routers, details.networks and
\* details.loop_routers of every issue
routing_affected_nodes(issues) ==
    LET top(i, key) == IF key \in DOMAIN i THEN {i[key]} ELSE {}
        inner(i, key) == IF key \in DOMAIN i.details THEN Range(i.details[key]) ELSE {}
        of(i) == top(i, "router") \cup top(i, "network") \cup inner(i, "routers")
                 \cup inner(i, "networks") \cup inner(i, "loop_routers")
    IN UNION {of(issues[k]) : k \in DOMAIN issues}

\* returns issues, affected_triples, affected_nodes
check_routing_inefficiencies(g, vb, ord, hashord) ==
    LET subjects(class) == {t[1] : t \in {u \in g : u[2] = P_type /\ u[3] = class}}
        issues(rg) ==
            check_routing_loops(rg, vb, hashord) \o check_suboptimal_paths(rg, vb, hashord)
            \o check_router_isolation(rg, vb, hashord)
            \o check_asymmetric_routing(rg, vb, hashord)
            \o check_missing_redundancy(rg, vb, hashord)
        result(found) == <<found, <<>>, routing_affected_nodes(found)>>
    IN Returned(CHOOSE r \in {result(i) :
                   i \in {issues(rg) :
                            rg \in {build_routing_graph(g, subjects(C_Router),
                                                        subjects(C_Network), ord, hashord)}}} : TRUE)

-----------------------------------------------------------------------------
(* registry.py: the catalog *)

Single(f, cat) ==
    [function |-> f, category |-> cat, single_check |-> TRUE, related_types |-> <<>>]
Multi(f, cat, rel) ==
    [function |-> f, category |-> cat, single_check |-> FALSE, related_types |-> rel]

\* CheckRegistry._checks, its keys in insertion order
get_all_issue_types ==
    << "duplicate-device-id", "orphaned-devices", "invalid-device-ranges",
       "device-address-conflicts", "missing-vendor-ids", "unreachable-networks",
       "missing-routers", "network-loops", "subnet-mismatches",
       "oversized-networks", "oversized-networks-warning",
       "oversized-networks-critical", "duplicate-network", "duplicate-router",
       "duplicate-bbmd-warning", "duplicate-bbmd-error",
       "broadcast-domain-warning", "broadcast-domain-critical",
       "missing-bbmd-coverage", "broadcast-domain-overlap", "routing-loop",
       "suboptimal-routing-path", "router-single-point-failure",
       "asymmetric-routing", "missing-redundancy" >>

IssueTypes == Range(get_all_issue_types)

checks ==
    [t \in IssueTypes |->
      CASE t = "duplicate-device-id" ->
             Single("check_duplicate_device_ids", "device-conflicts")
        [] t = "orphaned-devices" ->
             Single("check_orphaned_devices", "connectivity")
        [] t = "invalid-device-ranges" ->
             Single("check_invalid_device_ranges", "device-validation")
        [] t = "device-address-conflicts" ->
             Single("check_device_address_conflicts", "device-conflicts")
        [] t = "missing-vendor-ids" ->
             Single("check_missing_vendor_ids", "device-validation")
        [] t = "unreachable-networks" ->
             Single("check_unreachable_networks", "network-topology")
        [] t = "missing-routers" ->
             Single("check_missing_routers", "network-topology")
        [] t = "network-loops" ->
             Single("check_network_loops", "network-topology")
        [] t = "subnet-mismatches" ->
             Single("check_subnet_mismatches", "network-topology")
        [] t = "oversized-networks" ->
             Multi("check_oversized_networks", "network-performance",
                   <<"oversized-networks-warning", "oversized-networks-critical">>)
        [] t = "oversized-networks-warning" ->
             Multi("check_oversized_networks", "network-performance",
                   <<"oversized-networks", "oversized-networks-critical">>)
        [] t = "oversized-networks-critical" ->
             Multi("check_oversized_networks", "network-performance",
                   <<"oversized-networks", "oversized-networks-warning">>)
        [] t = "duplicate-network" ->
             Multi("check_duplicate_networks", "network-topology",
                   <<"duplicate-router">>)
        [] t = "duplicate-router" ->
             Multi("check_duplicate_networks", "network-topology",
                   <<"duplicate-network">>)
        [] t = "duplicate-bbmd-warning" ->
             Multi("check_duplicate_bbmds", "bbmd-configuration",
                   <<"duplicate-bbmd-error">>)
        [] t = "duplicate-bbmd-error" ->
             Multi("check_duplicate_bbmds", "bbmd-configuration",
                   <<"duplicate-bbmd-warning">>)
        [] t = "broadcast-domain-warning" ->
             Multi("check_broadcast_domains", "network-performance",
                   <<"broadcast-domain-critical", "missing-bbmd-coverage",
                     "broadcast-domain-overlap">>)
        [] t = "broadcast-domain-critical" ->
             Multi("check_broadcast_domains", "network-performance",
                   <<"broadcast-domain-warning", "missing-bbmd-coverage",
                     "broadcast-domain-overlap">>)
        [] t = "missing-bbmd-coverage" ->
             Multi("check_broadcast_domains", "bbmd-configuration",
                   <<"broadcast-domain-warning", "broadcast-domain-critical",
                     "broadcast-domain-overlap">>)
        [] t = "broadcast-domain-overlap" ->
             Multi("check_broadcast_domains", "network-topology",
                   <<"broadcast-domain-warning", "broadcast-domain-critical",
                     "missing-bbmd-coverage">>)
        [] t = "routing-loop" ->
             Multi("check_routing_inefficiencies", "routing-topology",
                   <<"suboptimal-routing-path", "router-single-point-failure",
                     "asymmetric-routing", "missing-redundancy">>)
        [] t = "suboptimal-routing-path" ->
             Multi("check_routing_inefficiencies", "routing-performance",
                   <<"routing-loop", "router-single-point-failure",
                     "asymmetric-routing", "missing-redundancy">>)
        [] t = "router-single-point-failure" ->
             Multi("check_routing_inefficiencies", "routing-reliability",
                   <<"routing-loop", "suboptimal-routing-path",
                     "asymmetric-routing", "missing-redundancy">>)
        [] t = "asymmetric-routing" ->
             Multi("check_routing_inefficiencies", "routing-topology",
                   <<"routing-loop", "suboptimal-routing-path",
                     "router-single-point-failure", "missing-redundancy">>)
        [] t = "missing-redundancy" ->
             Multi("check_routing_inefficiencies", "routing-reliability",
                   <<"routing-loop", "suboptimal-routing-path",
                     "router-single-point-failure", "asymmetric-routing">>)]

Analyzers == {checks[t].function : t \in IssueTypes}

get_cli_choices == get_all_issue_types \o <<"all">>

\* a resolve_issues_to_check that forgets the related types
resolve_issues_to_check_NoRelated(requested_issue) ==
    IF requested_issue = "all" THEN get_all_issue_types
    ELSE <<requested_issue>>

resolve_issues_to_check(requested_issue) ==
    IF requested_issue = "all" THEN get_all_issue_types
    ELSE IF requested_issue \in DOMAIN checks
         THEN IF checks[requested_issue].single_check
              THEN <<requested_issue>>
              ELSE <<requested_issue>> \o checks[requested_issue].related_types
    ELSE <<requested_issue>>     \* let it fail downstream if invalid

-----------------------------------------------------------------------------
(* The analyzers behind the catalog.                                       *)
(* The three analyzers above are computed from the store.  For the others  *)
(* the model keeps what the registry depends on: how many components the   *)
(* function returns, whether it catches its own exceptions, and which      *)
(* kinds of findings it builds; which of them a given store yields is left *)
(* open (any list of at most MaxFindings of them).                         *)

\* number of components of the returned tuple
ReturnArity(f) ==
    IF f \in {"check_missing_vendor_ids", "check_missing_routers",
              "check_network_loops", "check_routing_inefficiencies"}
    THEN 3 ELSE 2

\* try: ... except Exception: return [], []
CatchesOwnErrors(f) ==
    f \in {"check_duplicate_device_ids", "check_duplicate_networks",
           "check_duplicate_bbmds"}

F(t, sev) == [issue_type |-> t, severity |-> sev]

EmittedKinds(f) ==
    CASE f = "check_orphaned_devices" -> {F("orphaned-device", "critical")}
      [] f = "check_device_address_conflicts" ->
           {[type |-> "device-address-conflicts", severity |-> "critical"]}
      [] f = "check_unreachable_networks" -> {F("unreachable-networks", "high")}
      [] f = "check_missing_routers" -> {F("missing-routers", "medium")}
      [] f = "check_network_loops" -> {F("network-loops", "critical")}
      [] f = "check_subnet_mismatches" -> {F("subnet-mismatches", "medium")}
      [] f = "check_oversized_networks" ->
           {F("oversized-networks-critical", "critical"),
            F("oversized-networks-warning", "warning")}
      [] f = "check_duplicate_networks" ->
           {[issue_type |-> "duplicate-router"], [issue_type |-> "duplicate-network"]}
      [] f = "check_duplicate_bbmds" ->
           {F("duplicate-bbmd-error", "error"), F("duplicate-bbmd-warning", "warning")}
      [] f = "check_broadcast_domains" ->
           {F("broadcast-domain-critical", "critical"),
            F("broadcast-domain-warning", "warning"),
            F("missing-bbmd-coverage", "warning"),
            F("broadcast-domain-overlap", "warning")}
      [] f = "check_routing_inefficiencies" ->
           {F("routing-loop", "critical"), F("routing-loop", "warning"),
            F("suboptimal-routing-path", "warning"),
            F("router-single-point-failure", "warning"),
            F("asymmetric-routing", "warning"),
            F("missing-redundancy", "warning")}
      [] OTHER -> {}

BoundedSeqs(S, n) == UNION {[1..k -> S] : k \in 0..n}

\* every result the call check_info['function'](graph, verbose) can have
AnalyzerResults(f, g, vb, fault) ==
    CASE f = "check_duplicate_device_ids" ->
           {check_duplicate_device_ids(g, vb, o, h, fault) : o \in EnumOrders, h \in EnumOrders}
      [] f = "check_invalid_device_ranges" ->
           {check_invalid_device_ranges(g, vb, o, fault) : o \in EnumOrders}
      [] f = "check_missing_vendor_ids" ->
           {check_missing_vendor_ids(g, vb, o, fault) : o \in EnumOrders}
      [] OTHER ->
           IF fault
           THEN {IF CatchesOwnErrors(f) THEN Returned(<<<<>>, <<>>>>) ELSE Raised}
           ELSE {Returned(IF ReturnArity(f) = 2 THEN <<iss, <<>>>> ELSE <<iss, <<>>, <<>>>>) :
                   iss \in BoundedSeqs(EmittedKinds(f), MaxFindings)}

-----------------------------------------------------------------------------
(* registry.py: execute_checks *)

NoIssues == [t \in {} |-> <<>>]

\* i.get('issue_type') == related_type
HasIssueType(i, related_type) ==
    "issue_type" \in DOMAIN i /\ i["issue_type"] = related_type

\* all_issues after the buckets of `types` were assigned from `issues`
Partitioned(buckets, types, issues) ==
    LET of(rt) == LET is(i) == HasIssueType(i, rt) IN SelectSeq(issues, is)
    IN [t \in DOMAIN buckets \cup Range(types) |->
          IF t \in Range(types) THEN of(t) ELSE buckets[t]]

\* no traversal is in progress
NoTraversal == [kind |-> "", done |-> FALSE]

\* no direct analyzer run is recorded
NoRun == [fn |-> "", verbose |-> FALSE, ord |-> "asc", hashord |-> "asc",
          result |-> Raised]

\* the caller resolves a selector (check-graph --issue X)
Resolve(r) ==
    /\ pc = "idle"
    /\ requested' = r
    /\ issues_to_check' = resolve_issues_to_check(r)
    /\ pc' = "resolved"
    /\ last' = NoRun
    /\ UNCHANGED <<graph, verbose, idx, all_issues, all_affected_triples,
                   executed_functions, calls, outputs, faulted, earlier, trav>>

\* the caller passes a list of its own
Request(list) ==
    /\ pc = "idle"
    /\ requested' = "(list)"
    /\ issues_to_check' = list
    /\ pc' = "resolved"
    /\ last' = NoRun
    /\ UNCHANGED <<graph, verbose, idx, all_issues, all_affected_triples,
                   executed_functions, calls, outputs, faulted, earlier, trav>>

\* execute_checks is entered: its locals are created
ExecBegin(vb) ==
    /\ pc = "resolved"
    /\ pc' = "loop"
    /\ verbose' = vb
    /\ idx' = 1
    /\ all_issues' = NoIssues
    /\ all_affected_triples' = <<>>
    /\ executed_functions' = {}
    /\ calls' = [f \in Analyzers |-> 0]
    /\ outputs' = [f \in {} |-> <<>>]
    /\ faulted' = FALSE
    /\ UNCHANGED <<graph, requested, issues_to_check, last, earlier, trav>>

\* what one pass of the for loop does to the locals of execute_checks
ExecIterEffect ==
    /\ pc = "loop"
    /\ idx <= Len(issues_to_check)
    /\ idx' = idx + 1
    /\ LET issue_type == issues_to_check[idx] IN
       IF issue_type \notin DOMAIN checks \/
          checks[issue_type].function \in executed_functions
       THEN UNCHANGED <<pc, all_issues, all_affected_triples, executed_functions,
                        calls, outputs, faulted>>
       ELSE
       LET check_info == checks[issue_type]
           fn == check_info.function
       IN \E fault \in BOOLEAN :
          \E r \in AnalyzerResults(fn, graph, verbose, fault) :
            /\ calls' = [calls EXCEPT ![fn] = @ + 1]
            /\ faulted' = (faulted \/ fault)
            /\ IF r.raised \/ Len(r.value) # 2
               THEN \* the exception, or the ValueError of the unpacking, leaves
                    \* execute_checks
                    /\ pc' = "raised"
                    /\ UNCHANGED <<all_issues, all_affected_triples,
                                   executed_functions, outputs>>
               ELSE /\ pc' = pc
                    /\ outputs' = [f \in DOMAIN outputs \cup {fn} |->
                                     IF f = fn THEN r.value[1] ELSE outputs[f]]
                    /\ all_issues' =
                         IF check_info.single_check
                         THEN [t \in DOMAIN all_issues \cup {issue_type} |->
                                 IF t = issue_type THEN r.value[1] ELSE all_issues[t]]
                         ELSE Partitioned(all_issues,
                                          <<issue_type>> \o check_info.related_types,
                                          r.value[1])
                    /\ all_affected_triples' = all_affected_triples \o r.value[2]
                    /\ executed_functions' = executed_functions \cup {fn}
    /\ UNCHANGED <<requested, issues_to_check, verbose, last, earlier, trav>>

\* a loop pass whose analyzer consumes the triples it has read
ExecIter_Consuming == ExecIterEffect /\ graph' = {}

ExecIter == ExecIterEffect /\ graph' = graph

\* return all_issues, all_affected_triples
ExecReturn ==
    /\ pc = "loop"
    /\ idx > Len(issues_to_check)
    /\ pc' = "returned"
    /\ UNCHANGED <<graph, requested, issues_to_check, verbose, idx, all_issues,
                   all_affected_triples, executed_functions, calls, outputs,
                   faulted, last, earlier, trav>>

\* the locals of execute_checks are gone with the call
Forgotten ==
    /\ pc \in {"returned", "raised"}
    /\ pc' = "idle"
    /\ requested' = ""
    /\ issues_to_check' = <<>>
    /\ verbose' = FALSE
    /\ idx' = 0
    /\ all_issues' = NoIssues
    /\ all_affected_triples' = <<>>
    /\ executed_functions' = {}
    /\ calls' = [f \in Analyzers |-> 0]
    /\ outputs' = [f \in {} |-> <<>>]
    /\ faulted' = FALSE
    /\ UNCHANGED <<graph, last>>

\* the caller is done with the result or the exception
Finish == Forgotten /\ UNCHANGED <<earlier, trav>>

\* the caller is done and goes on to call the same registry again
FinishAndGoOn ==
    /\ Forgotten
    /\ earlier' = earlier \cup {f \in Analyzers : calls[f] > 0}
    /\ UNCHANGED trav

-----------------------------------------------------------------------------
(* An analyzer called directly, as the tests do *)

DeviceAnalyzers == {"check_duplicate_device_ids", "check_invalid_device_ranges",
                    "check_missing_vendor_ids"}

\* the analyzers that list the members of a Python set
HashOrdered == {"check_duplicate_device_ids", "check_missing_routers",
                "check_unreachable_networks", "check_duplicate_networks",
                "check_oversized_networks", "check_routing_inefficiencies",
                "check_broadcast_domains"}

Analyze(f, g, vb, ord, hashord) ==
    CASE f = "check_duplicate_device_ids" ->
           check_duplicate_device_ids(g, vb, ord, hashord, FALSE)
      [] f = "check_invalid_device_ranges" ->
           check_invalid_device_ranges(g, vb, ord, FALSE)
      [] f = "check_missing_vendor_ids" ->
           check_missing_vendor_ids(g, vb, ord, FALSE)
      [] f = "check_missing_properties" ->
           check_missing_properties(g, vb, ord)
      [] f = "check_missing_routers" ->
           check_missing_routers(g, vb, ord, hashord)
      [] f = "check_unreachable_networks" ->
           check_unreachable_networks(g, vb, ord, hashord)
      [] f = "check_network_loops" ->
           check_network_loops(g, vb, ord)
      [] f = "check_duplicate_networks" ->
           check_duplicate_networks(g, vb, ord, hashord)
      [] f = "check_subnet_mismatches" ->
           check_subnet_mismatches(g, vb, ord)
      [] f = "check_oversized_networks" ->
           check_oversized_networks(g, vb, ord, hashord)
      [] f = "check_routing_inefficiencies" ->
           check_routing_inefficiencies(g, vb, ord, hashord)
      [] f = "check_broadcast_domains" ->
           check_broadcast_domains(g, vb, ord, hashord)

\* issues, ... = f(graph, verbose), the store enumerating in order ord and the
\* interpreter's sets listing in order hashord
RunAnalyzer(f, vb, ord, hashord) ==
    /\ pc = "idle"
    /\ last = NoRun
    /\ f \in HashOrdered \/ hashord = "asc"
    /\ last' = [fn |-> f, verbose |-> vb, ord |-> ord, hashord |-> hashord,
                result |-> Analyze(f, graph, vb, ord, hashord)]
    /\ UNCHANGED <<graph, pc, requested, issues_to_check, verbose, idx,
                   all_issues, all_affected_triples, executed_functions, calls,
                   outputs, faulted, earlier, trav>>

\* the caller is done with the result of the run
Discard ==
    /\ last # NoRun
    /\ last' = NoRun
    /\ UNCHANGED <<graph, pc, requested, issues_to_check, verbose, idx,
                   all_issues, all_affected_triples, executed_functions, calls,
                   outputs, faulted, earlier, trav>>

-----------------------------------------------------------------------------
(* The stores *)

RECURSIVE SubsetsUpTo(_, _)
SubsetsUpTo(U, k) ==
    IF k = 0 THEN {{}}
    ELSE LET P == SubsetsUpTo(U, k - 1)
         IN P \cup {g \cup {t} : g \in P, t \in U}

\* device-instance values shared or not, on networks and subnets
DuplicateUniverse ==
    {<<d, P_instance, v>> : d \in Nodes, v \in {L_5, L_123}}
    \cup {<<d, P_onnetwork, n>> : d \in Nodes, n \in {Net1, Net2}}
    \cup {<<d, P_onsubnet, Sub1>> : d \in Nodes}

\* Devices with well and ill formed device-instance values
RangeUniverse ==
    {<<d, P_type, C_Device>> : d \in Nodes}
    \cup {<<DevA, P_instance, v>> :
            v \in {S_Empty, L_x, L_m1, L_0, L_7sp, L_max, L_over}}
    \cup {<<DevB, P_instance, v>> : v \in {L_m1, L_max}}

\* Devices with well and ill formed vendor-id values, and the sentinel
VendorUniverse ==
    {<<d, P_type, C_Device>> : d \in Nodes \cup {S_Grasshopper}}
    \cup {<<DevA, P_label, S_Grasshopper>>}
    \cup {<<DevA, P_vendor, v>> :
            v \in {S_Empty, L_x, L_m1, L_123, V_7, V_0, V_bad, V_path,
                   S_HttpVendor5}}
    \cup {<<DevB, P_vendor, L_0>>}

\* one Device with any of its essential properties, an address that may be
\* the empty literal, a label that may name the sentinel, and a second Device
\* that has every property or none
PropertyStores ==
    LET all  == {<<DevA, essential_properties[i], L_5>> : i \in 1..Len(essential_properties)}
        more == {{}, {<<DevA, P_label, S_Grasshopper>>}, {<<DevA, P_label, L_x>>},
                 {<<DevA, P_address, S_Empty>>},
                 {<<DevB, P_type, C_Device>>},
                 {<<DevB, P_type, C_Device>>}
                   \cup {<<DevB, essential_properties[i], L_7sp>> :
                            i \in 1..Len(essential_properties)}}
    IN {{<<DevA, P_type, C_Device>>} \cup props \cup extra : props \in SUBSET all, extra \in more}

\* one device with up to two addresses, assigned to any of two subnets, each
\* subnet with or without a range (Sub1 also untyped, or with a range that
\* is no CIDR, or with two ranges)
MismatchStores ==
    LET addresses == {A \in SUBSET {A_10_0_0_5, A_10_0_1_5, L_5} : Cardinality(A) <= 2}
        ranges1   == {{}, {N_10_0_0_0_24}, {N_10_0_1_9_24}, {L_x},
                      {N_10_0_0_0_24, N_10_0_1_9_24}}
        ranges2   == {{}, {N_10_0_0_0_24}, {N_10_0_1_9_24}}
    IN {{<<DevA, P_type, C_Device>>}
          \cup {<<DevA, P_address, a>> : a \in A}
          \cup {<<DevA, P_onsubnet, Sub(i)>> : i \in on}
          \cup {<<Sub(1), P_type, C_Subnet>> : i \in typed1}
          \cup {<<Sub(1), P_subnetaddr, n>> : n \in r1}
          \cup {<<Sub(2), P_type, C_Subnet>>}
          \cup {<<Sub(2), P_subnetaddr, n>> : n \in r2} :
        A \in addresses, on \in SUBSET {1, 2}, typed1 \in SUBSET {1},
        r1 \in ranges1, r2 \in ranges2}

\* the sizes within MaxMargin of threshold t
Near(t) == (t - MaxMargin)..(t + MaxMargin)

\* one sized network per store: its type shown by a network-type value, a
\* label, its URI or its devices' addresses (or not at all), its size near the
\* thresholds of that type; the devices attached directly, or two of them
\* through a subnet (one of these directly as well), or with a second,
\* point-to-point network of two devices beside it
SizeStores ==
    LET marked(net, p, v, sizes) ==
            [net |-> net, marks |-> {<<net, p, v>>}, addr |-> "none", sizes |-> sizes]
        addressed(kind, sizes) ==
            [net |-> Net(1), marks |-> {}, addr |-> kind, sizes |-> sizes]
        cases ==
            { marked(Net(1), P_nettype, T_MSTP, Near(15) \cup {17} \cup Near(30)),
              marked(Net(1), P_label, L_IPCompare, {17} \cup Near(50) \cup Near(100)),
              marked(Net(1), P_nettype, T_ARCNET, Near(15) \cup Near(25)),
              marked(Net(1), P_nettype, T_PTP, 1..(3 + MaxMargin)),
              marked(Net(1), P_nettype, T_Ethernet, Near(50)),
              marked(NetIp, P_type, C_Network, {17}),
              addressed("none", Near(25) \cup Near(50)),
              addressed("numeric", Near(15)),
              addressed("dotted", {17}),
              addressed("mixed", {17}) }
        address(kind, i) ==
            CASE kind = "none" -> {}
              [] kind = "numeric" -> {L_5}
              [] kind = "dotted" -> {A_10_0_0_5}
              [] kind = "mixed" -> IF i <= 6 THEN {L_5} ELSE {A_10_0_0_5}
        attached(net, mode, i) ==
            IF mode = "subnet" /\ i <= 2
            THEN {<<Dev(i), P_onsubnet, Sub(1)>>, <<Sub(1), P_subnetof, net>>}
                 \cup {<<Dev(i), P_onnetwork, net>> : k \in {i} \ {1}}
            ELSE {<<Dev(i), P_onnetwork, net>>}
        beside(mode) ==
            IF mode = "second"
            THEN {<<Net(2), P_type, C_Network>>, <<Net(2), P_nettype, T_PTP>>,
                  <<Dev(1), P_onnetwork, Net(2)>>, <<Dev(2), P_onnetwork, Net(2)>>}
            ELSE {}
        store(c, n, mode) ==
            {<<c.net, P_type, C_Network>>} \cup c.marks \cup beside(mode)
              \cup UNION {attached(c.net, mode, i) : i \in 1..n}
              \cup UNION {{<<Dev(i), P_address, a>> : a \in address(c.addr, i)} : i \in 1..n}
    IN UNION {{store(c, n, mode) : n \in c.sizes, mode \in {"direct", "subnet", "second"}} :
                c \in cases}

\* x is a `class` attached by predicate p to y
Attached(x, class, p, y) == {<<x, P_type, class>>, <<x, p, y>>}

\* the attachments a topology is assembled from: Devices and Routers on
\* networks and on a subnet, Routers serving networks, the subnet's network
Attachments ==
    {Attached(DevA, C_Device, P_onnetwork, Net(n)) : n \in {1, 2}}
    \cup {Attached(DevB, C_Device, P_onnetwork, Net(n)) : n \in {2, 3}}
    \cup {Attached(DevA, C_Device, P_onsubnet, Sub1), {<<Sub1, P_subnetof, Net(3)>>}}
    \cup {Attached(Rtr(1), C_Router, P_onnetwork, Net(n)) : n \in {1, 2}}
    \cup {Attached(Rtr(2), C_Router, P_onnetwork, Net(n)) : n \in {2, 3}}
    \cup {Attached(Rtr(1), C_Router, P_serves, Net(n)) : n \in {2, 3}}
    \cup {Attached(Rtr(2), C_Router, P_serves, Net(1)),
          Attached(Rtr(1), C_Router, P_onsubnet, Sub1)}

\* topologies of up to MaxLinks attachments, with no, one, two or three of
\* the networks typed BACnetNetwork
TopologyStores ==
    {UNION links \cup {<<Net(n), P_type, C_Network>> : n \in typed} :
       links \in SubsetsUpTo(Attachments, MaxLinks),
       typed \in {{}, {3}, {1, 2}, {1, 2, 3}}}

\* routing topologies over five networks: up to MaxRouters routers, each on
\* one network and serving another (one router per pair, and one that routes
\* back from the second network to the first)
RoutingStores ==
    LET pairs == {e \in (1..5) \X (1..5) : e[1] < e[2]} \cup {<<2, 1>>}
        link(e) == Attached(Rtr(e[1] * 10 + e[2]), C_Router, P_onnetwork, Net(e[1]))
                   \cup {<<Rtr(e[1] * 10 + e[2]), P_serves, Net(e[2])>>}
    IN {UNION {link(e) : e \in E} : E \in SubsetsUpTo(pairs, MaxRouters)}

\* a Router on Net(a) that serves Net(b)
Link(a, b) ==
    Attached(Rtr(a * 10 + b), C_Router, P_onnetwork, Net(a))
    \cup {<<Rtr(a * 10 + b), P_serves, Net(b)>>}

\* up to MaxRouters Routers between networks at most two numbers apart, one
\* of which serves the network it is on; the first two or all six networks
\* are BACnetNetworks
PathStores ==
    LET pairs == {e \in (1..6) \X (1..6) : e[1] < e[2] /\ e[2] - e[1] <= 2}
                 \cup {<<2, 1>>, <<1, 1>>}
        typed(k) == {<<Net(n), P_type, C_Network>> : n \in 1..k}
    IN {UNION {Link(e[1], e[2]) : e \in E} \cup typed(k) :
          E \in SubsetsUpTo(pairs, MaxRouters), k \in {2, 6}}

\* rings of 3..MaxRing networks, numbered around the ring or with the odd
\* numbers first, the Routers all facing one way or every other one turned,
\* with or without two chords and a network hanging off the ring
RingStores ==
    LET around(k) == [i \in 1..k |-> i]
        odd_first(k) == [i \in 1..k |-> IF 2 * i - 1 <= k THEN 2 * i - 1
                                        ELSE 2 * (k - i + 1)]
        succ(k, i) == (i % k) + 1
        edge(a, b, turned) == IF turned THEN Link(b, a) ELSE Link(a, b)
        ring(k, at, turn) ==
            UNION {edge(at[i], at[succ(k, i)], turn /\ i % 2 = 0) : i \in 1..k}
        extras(k, at) == {Link(at[1], at[3]), Link(at[(4 % k) + 1], at[2]),
                          Link(at[2], MaxRing + 1)}
        typed == {<<Net(n), P_type, C_Network>> : n \in 1..(MaxRing + 1)}
        shaped(k, at) == {ring(k, at, turn) \cup UNION X \cup typed :
                            turn \in BOOLEAN, X \in SUBSET extras(k, at)}
    IN UNION {shaped(k, around(k)) \cup shaped(k, odd_first(k)) : k \in 3..MaxRing}

\* two BACnetNetworks; up to three subnets of the first, the first subnet
\* typed Subnet or not; no devices or about a hundred on the first network;
\* DevA and DevB with addresses in one or two /24 ranges, on the first
\* network, its first subnet or the second network; a BBMD, typed or not, on
\* the first or the third subnet
BroadcastStores ==
    LET nets == {<<Net(n), P_type, C_Network>> : n \in 1..2}
        subs(k, typed) ==
            {<<Sub(i), P_subnetof, Net(1)>> : i \in 1..k}
            \cup {<<Sub(i), P_type, C_Subnet>> : i \in (IF typed THEN 1 ELSE 2)..k}
        crowd(n) == {<<Dev(i), P_onnetwork, Net(1)>> : i \in 1..n}
        addressed ==
            { {},
              {<<DevA, P_onnetwork, Net(1)>>, <<DevA, P_address, A_10_0_0_5>>},
              {<<DevA, P_onnetwork, Net(1)>>, <<DevA, P_address, N_10_0_0_0_24>>,
               <<DevB, P_onsubnet, Sub(1)>>, <<DevB, P_address, L_x>>},
              {<<DevA, P_onnetwork, Net(1)>>, <<DevA, P_address, A_10_0_0_5>>,
               <<DevB, P_onsubnet, Sub(1)>>, <<DevB, P_address, A_10_0_0_9_port>>},
              {<<DevA, P_onnetwork, Net(1)>>, <<DevA, P_address, A_10_0_0_5>>,
               <<DevB, P_onsubnet, Sub(1)>>, <<DevB, P_address, A_10_0_1_5>>},
              {<<DevA, P_onnetwork, Net(1)>>, <<DevA, P_address, A_10_0_0_5>>,
               <<DevB, P_onnetwork, Net(2)>>, <<DevB, P_address, A_10_0_0_9_port>>},
              {<<DevA, P_onnetwork, Net(1)>>, <<DevA, P_address, A_10_0_0_5>>,
               <<DevA, P_address, A_10_0_1_5>>} }
        placed ==
            { {},
              {<<Bbmd1, P_type, C_BBMD>>, <<Bbmd1, P_bbmdonsubnet, Sub(1)>>},
              {<<Bbmd1, P_bbmdonsubnet, Sub(1)>>},
              {<<Bbmd1, P_type, C_BBMD>>, <<Bbmd1, P_bbmdonsubnet, Sub(3)>>} }
    IN {nets \cup subs(k, typed) \cup crowd(n) \cup a \cup b :
          k \in 0..3, typed \in BOOLEAN, n \in {0} \cup (100 - MaxMargin)..(100 + MaxMargin),
          a \in addressed, b \in placed}

\* a Router on every network of `on`, serving none
Junction(r, on) ==
    {<<Rtr(r), P_type, C_Router>>} \cup {<<Rtr(r), P_onnetwork, Net(n)>> : n \in on}

\* four BACnetNetworks: nothing, a ring or a chain of serving Routers, or
\* Routers that sit on several networks, with up to MaxLinks more of: a
\* Router back along an edge, a Router serving the network it is on, chords,
\* a second Router on the same two networks; and a ring of MaxRing networks
\* with and without a chord and a Router serving its own network
TraversalStores ==
    LET bases == { {},
                   Link(1, 2) \cup Link(2, 3) \cup Link(3, 1),
                   Link(1, 2) \cup Link(2, 3) \cup Link(3, 4),
                   Junction(1, {1, 2}) \cup Junction(2, {2, 3}) \cup Junction(3, {1, 3}),
                   Junction(1, {1, 2, 3}) \cup Junction(2, {3, 4}) }
        extras == {Link(2, 1), Link(1, 1), Link(3, 4), Link(4, 1), Link(1, 3),
                   Junction(4, {1, 2})}
        typed(k) == {<<Net(n), P_type, C_Network>> : n \in 1..k}
        ring == UNION {Link(i, (i % MaxRing) + 1) : i \in 1..MaxRing}
    IN {b \cup UNION X \cup typed(4) : b \in bases, X \in SubsetsUpTo(extras, MaxLinks)}
       \cup {ring \cup typed(MaxRing),
             ring \cup Link(1, 3) \cup Link(1, 1) \cup typed(MaxRing)}

\* MaxPeers Routers, each on any of two networks and on any of two subnets
PeerStores ==
    LET held(r, on) == {<<Rtr(r), P_type, C_Router>>}
                       \cup {<<Rtr(r), P_onnetwork, Net(n)>> : n \in on[1]}
                       \cup {<<Rtr(r), P_onsubnet, Sub(k)>> : k \in on[2]}
    IN {UNION {held(r, f[r]) : r \in 1..MaxPeers} :
          f \in [1..MaxPeers -> (SUBSET {1, 2}) \X (SUBSET {1, 2})]}

GeneratedStores ==
    SubsetsUpTo(DuplicateUniverse, MaxTriples)
    \cup SubsetsUpTo(RangeUniverse, MaxTriples)
    \cup SubsetsUpTo(VendorUniverse, MaxTriples)

\* the stores the registry is exercised on: empty, two devices with one
\* device-instance on two networks, two Devices outside the instance range
ExampleStores ==
    { {},
      {<<DevA, P_instance, L_123>>, <<DevA, P_onnetwork, Net1>>,
       <<DevB, P_instance, L_123>>, <<DevB, P_onnetwork, Net2>>},
      {<<DevA, P_type, C_Device>>, <<DevA, P_instance, L_m1>>,
       <<DevB, P_type, C_Device>>, <<DevB, P_instance, L_over>>} }

\* names a caller may put in a list of its own
RequestPool ==
    {"duplicate-device-id", "invalid-device-ranges", "missing-vendor-ids",
     "duplicate-network", "duplicate-router", "no-such-issue"}

-----------------------------------------------------------------------------
(* The graph traversals of the analyzers, one loop pass or call at a time *)

\* everything but the locals of the traversal
Registry == <<graph, pc, requested, issues_to_check, verbose, idx, all_issues,
              all_affected_triples, executed_functions, calls, outputs, faulted,
              last, earlier>>

\* the subjects of g typed class
TypedAs(g, class) == {t[1] : t \in {u \in g : u[2] = P_type /\ u[3] = class}}

\* a read of the queue that leaves its first element in it
popleft_Peek(queue) == queue

\* queue.popleft(): what is left of the queue
popleft(queue) == Tail(queue)

\* check_unreachable_networks comes to its loop over the networks (with fewer
\* than two BACnetNetworks it has returned before)
IslandsStart(hashord) ==
    /\ trav = NoTraversal
    /\ LET attached == [r \in TypedAs(graph, C_Router) |-> router_networks(graph, r)]
           nets == TypedAs(graph, C_Network) \cup UNION {attached[r] : r \in DOMAIN attached}
       IN trav' = [kind |-> "islands", done |-> FALSE, hashord |-> hashord,
                   network_connections |-> network_connections(nets, attached),
                   todo |-> IF Cardinality(TypedAs(graph, C_Network)) < 2 THEN <<>>
                            ELSE TermsInOrder(nets, hashord),
                   processed_networks |-> {}, network_islands |-> <<>>,
                   inner |-> FALSE, queue |-> <<>>, visited |-> {}]
    /\ UNCHANGED Registry

\* one pass of `for network in networks`, or inside get_reachable_networks
\* one pass of `while queue`
IslandsStep ==
    /\ trav.kind = "islands" /\ ~trav.done
    /\ LET current == Head(trav.queue)
           seen == trav.visited \cup {current}
           unseen(c) == c \notin seen
           connected == TermsInOrder(trav.network_connections[current], trav.hashord)
       IN trav' =
            IF trav.inner
            THEN IF trav.queue = <<>>
                 THEN \* return reachable
                      [trav EXCEPT !.inner = FALSE,
                                   !.network_islands = Append(@, trav.visited),
                                   !.processed_networks = @ \cup trav.visited]
                 ELSE IF current \in trav.visited
                      THEN [trav EXCEPT !.queue = popleft(@)]
                 ELSE [trav EXCEPT !.visited = seen,
                                   !.queue = popleft(@) \o SelectSeq(connected, unseen)]
            ELSE IF trav.todo = <<>> THEN [trav EXCEPT !.done = TRUE]
            ELSE IF Head(trav.todo) \in trav.processed_networks
                 THEN [trav EXCEPT !.todo = Tail(@)]
            ELSE [trav EXCEPT !.todo = Tail(@), !.inner = TRUE,
                              !.queue = <<Head(trav.todo)>>, !.visited = {}]
    /\ UNCHANGED Registry

\* the routing graph of the store, each network with its connections listed
RoutingAdjacency(ord, hashord) ==
    LET listed(rg) ==
            [all_networks |-> TermsInOrder(rg.all_networks, hashord),
             adj |-> [n \in rg.all_networks |-> connected_to(rg, n, hashord)]]
    IN CHOOSE r \in {listed(rg) :
                       rg \in {build_routing_graph(graph, TypedAs(graph, C_Router),
                                  TypedAs(graph, C_Network), ord, hashord)}} : TRUE

\* _check_suboptimal_paths comes to its loop over the sources
PathsStart(ord, hashord) ==
    /\ trav = NoTraversal
    /\ \E rg \in {RoutingAdjacency(ord, hashord)} :
         trav' = [kind |-> "shortest_paths", done |-> FALSE, ord |-> ord,
                  hashord |-> hashord, adj |-> rg.adj,
                  todo |-> rg.all_networks, inner |-> FALSE, queue |-> <<>>,
                  distances |-> <<>>, long |-> 0]
    /\ UNCHANGED Registry

\* one pass of `for source in all_networks`, or of its `while queue`
PathsStep ==
    /\ trav.kind = "shortest_paths" /\ ~trav.done
    /\ LET current == Head(trav.queue)
           fresh(n) == n \notin DOMAIN trav.distances
           found == SelectSeq(trav.adj[current], fresh)
           far == {n \in DOMAIN trav.distances : long_path(trav.distances[n])}
       IN trav' =
            IF trav.inner
            THEN IF trav.queue = <<>>
                 THEN \* the long paths of this source are reported
                      [trav EXCEPT !.inner = FALSE, !.long = @ + Cardinality(far)]
                 ELSE [trav EXCEPT
                         !.queue = popleft(@) \o found,
                         !.distances = @ @@ [n \in Range(found) |-> trav.distances[current] + 1]]
            ELSE IF trav.todo = <<>> THEN [trav EXCEPT !.done = TRUE]
            ELSE [trav EXCEPT !.todo = Tail(@), !.inner = TRUE,
                              !.queue = <<Head(trav.todo)>>,
                              !.distances = (Head(trav.todo) :> 0)]
    /\ UNCHANGED Registry

\* the list without its last element
Popped(frames) == SubSeq(frames, 1, Len(frames) - 1)

\* _check_routing_loops comes to its loop over all_networks
LoopsStart(ord, hashord) ==
    /\ trav = NoTraversal
    /\ \E rg \in {RoutingAdjacency(ord, hashord)} :
         trav' = [kind |-> "routing_loops", done |-> FALSE, ord |-> ord,
                  hashord |-> hashord, adj |-> rg.adj,
                  todo |-> rg.all_networks, frames |-> <<>>, visited |-> {},
                  rec_stack |-> {}, loops_found |-> <<>>]
    /\ UNCHANGED Registry

\* one pass of `for network in routing_graph['all_networks']`, or inside
\* dfs_cycle_detect one pass of `for connected_network in ...`, a call (with
\* the three statements the callee begins with) or a return
LoopsStep ==
    /\ trav.kind = "routing_loops" /\ ~trav.done
    /\ LET top == trav.frames[Len(trav.frames)]
           nb == trav.adj[top.network]
           connected_network == nb[top.k]
           advanced == [trav.frames EXCEPT ![Len(trav.frames)].k = @ + 1]
           called(frames, network, path) ==
               Append(frames, [network |-> network, path |-> Append(path, network), k |-> 1])
           cycle == SubSeq(top.path, Position(top.path, connected_network), Len(top.path))
                    \o <<connected_network>>
       IN trav' =
            IF trav.frames = <<>>
            THEN IF trav.todo = <<>> THEN [trav EXCEPT !.done = TRUE]
                 ELSE IF Head(trav.todo) \in trav.visited THEN [trav EXCEPT !.todo = Tail(@)]
                 ELSE [trav EXCEPT !.todo = Tail(@),
                                   !.frames = called(<<>>, Head(trav.todo), <<>>),
                                   !.visited = @ \cup {Head(trav.todo)},
                                   !.rec_stack = @ \cup {Head(trav.todo)}]
            ELSE IF top.k > Len(nb)
                 THEN [trav EXCEPT !.frames = Popped(@), !.rec_stack = @ \ {top.network}]
            ELSE IF connected_network \notin trav.visited
                 THEN [trav EXCEPT !.frames = called(advanced, connected_network, top.path),
                                   !.visited = @ \cup {connected_network},
                                   !.rec_stack = @ \cup {connected_network}]
            ELSE IF connected_network \in trav.rec_stack
                 THEN [trav EXCEPT !.frames = advanced,
                                   !.loops_found = IF Len(cycle) > 2 THEN Append(@, cycle) ELSE @]
            ELSE [trav EXCEPT !.frames = advanced]
    /\ UNCHANGED Registry

\* _check_missing_redundancy comes to find_articulation_points (with no more
\* than two networks it does not call it)
PointsStart(ord, hashord) ==
    /\ trav = NoTraversal
    /\ \E rg \in {RoutingAdjacency(ord, hashord)} :
         trav' = [kind |-> "articulation", done |-> FALSE, ord |-> ord,
                  hashord |-> hashord, adj |-> rg.adj,
                  todo |-> IF Len(rg.all_networks) > 2 THEN rg.all_networks ELSE <<>>,
                  frames |-> <<>>, visited |-> {}, disc |-> <<>>, low |-> <<>>,
                  time |-> 0, articulation_points |-> {}]
    /\ UNCHANGED Registry

\* one pass of `for network in all_networks`, or inside bridge_util one pass
\* of `for v in ...`, a call (with the statements the callee begins with) or
\* a return (with the statements of the caller that follow the call)
PointsStep ==
    /\ trav.kind = "articulation" /\ ~trav.done
    /\ LET top == trav.frames[Len(trav.frames)]
           nb == trav.adj[top.u]
           v == nb[top.k]
           advanced == [trav.frames EXCEPT ![Len(trav.frames)].k = @ + 1]
           entered(t, frames, u, par) ==
               [t EXCEPT !.frames = Append(frames, [u |-> u, par |-> par, k |-> 1, children |-> 0]),
                         !.visited = @ \cup {u},
                         !.disc = @ @@ (u :> t.time),
                         !.low = @ @@ (u :> t.time),
                         !.time = @ + 1]
           caller == trav.frames[Len(trav.frames) - 1]
           low_u == Least(trav.low[caller.u], trav.low[top.u])
       IN trav' =
            IF trav.frames = <<>>
            THEN IF trav.todo = <<>> THEN [trav EXCEPT !.done = TRUE]
                 ELSE IF Head(trav.todo) \in trav.visited THEN [trav EXCEPT !.todo = Tail(@)]
                 ELSE entered([trav EXCEPT !.todo = Tail(@)], <<>>, Head(trav.todo), None)
            ELSE IF top.k > Len(nb)
                 THEN IF Len(trav.frames) = 1 THEN [trav EXCEPT !.frames = <<>>]
                      ELSE [trav EXCEPT
                              !.frames = Popped(@),
                              !.low = [@ EXCEPT ![caller.u] = low_u],
                              !.articulation_points =
                                  IF is_articulation(caller.par = None, caller.children,
                                                     trav.low[top.u], trav.disc[caller.u])
                                  THEN @ \cup {caller.u} ELSE @]
            ELSE IF v \notin trav.visited
                 THEN entered(trav, [advanced EXCEPT ![Len(advanced)].children = @ + 1], v, top.u)
            ELSE IF v # top.par
                 THEN [trav EXCEPT !.frames = advanced,
                                   !.low = [@ EXCEPT ![top.u] = Least(@, trav.disc[v])]]
            ELSE [trav EXCEPT !.frames = advanced]
    /\ UNCHANGED Registry

\* check_network_loops comes to the loop of _find_cycles_union_find over the
\* nodes (with fewer than three nodes it has returned before)
CyclesStart(ord) ==
    /\ trav = NoTraversal
    /\ \E ng \in {build_network_graph(router_edges(graph, ord))} :
         trav' = [kind |-> "network_loops", done |-> FALSE, ord |-> ord,
                  adj |-> ng.adj,
                  todo |-> IF Len(ng.keys) < 3 THEN <<>> ELSE ng.keys,
                  frames |-> <<>>, start_node |-> None, cycle |-> <<>>,
                  cycles |-> <<>>, visited_global |-> {}]
    /\ UNCHANGED Registry

\* one pass of `for start_node in all_nodes` up to its call, the rest of it
\* after the call, or inside _dfs_cycle_detection one pass of `for neighbor
\* in ...`, a call (with the statements the callee begins with) or a return;
\* trav.cycle is the cycle being returned
CyclesStep ==
    /\ trav.kind = "network_loops" /\ ~trav.done
    /\ LET top == trav.frames[Len(trav.frames)]
           nb == trav.adj[top.node]
           neighbor == nb[top.k]
           advanced == [trav.frames EXCEPT ![Len(trav.frames)].k = @ + 1]
           called(frames, node, visited, path, depth) ==
               IF too_deep(depth) \/ node \in visited THEN frames
               ELSE Append(frames, [node |-> node, visited |-> visited \cup {node},
                                    path |-> Append(path, node), depth |-> depth, k |-> 1])
           min_idx == CHOOSE i \in DOMAIN trav.cycle : \A j \in DOMAIN trav.cycle :
                         Position(TermUniverse, trav.cycle[i]) <= Position(TermUniverse, trav.cycle[j])
           normalized_cycle == SubSeq(trav.cycle, min_idx, Len(trav.cycle))
                               \o SubSeq(trav.cycle, 1, min_idx - 1)
           fresh == /\ Len(trav.cycle) >= 3
                    /\ \A i \in DOMAIN trav.cycles : Range(trav.cycles[i]) # Range(trav.cycle)
       IN trav' =
            IF trav.frames = <<>> /\ trav.start_node = None
            THEN IF trav.todo = <<>> THEN [trav EXCEPT !.done = TRUE]
                 ELSE IF Head(trav.todo) \in trav.visited_global THEN [trav EXCEPT !.todo = Tail(@)]
                 ELSE [trav EXCEPT !.todo = Tail(@), !.start_node = Head(trav.todo),
                                   !.frames = called(<<>>, Head(trav.todo), {}, <<>>, 0)]
            ELSE IF trav.frames = <<>>
                 THEN [trav EXCEPT
                         !.start_node = None, !.cycle = <<>>,
                         !.cycles = IF fresh THEN Append(@, normalized_cycle) ELSE @,
                         !.visited_global = @ \cup {trav.start_node}
                                              \cup (IF fresh THEN Range(trav.cycle) ELSE {})]
            ELSE IF trav.cycle # <<>>
                 THEN \* if cycle: return cycle
                      [trav EXCEPT !.frames = Popped(@)]
            ELSE IF top.k > Len(nb)
                 THEN [trav EXCEPT !.frames = Popped(@)]
            ELSE IF neighbor = trav.start_node /\ Len(top.path) >= 3
                 THEN [trav EXCEPT !.frames = Popped(@), !.cycle = top.path]
            ELSE IF neighbor \notin top.visited
                 THEN [trav EXCEPT !.frames = called(advanced, neighbor, top.visited,
                                                     top.path, top.depth + 1)]
            ELSE [trav EXCEPT !.frames = advanced]
    /\ UNCHANGED Registry

\* the traversal has returned and its locals are gone
TraversalEnd ==
    /\ trav.kind # "" /\ trav.done
    /\ trav' = NoTraversal
    /\ UNCHANGED Registry

\* the statement the interpreter is at in the traversal
TraversalStep == IslandsStep \/ PathsStep \/ LoopsStep \/ PointsStep \/ CyclesStep

-----------------------------------------------------------------------------
(* Specifications *)

InitLocals ==
    /\ pc = "idle"
    /\ requested = ""
    /\ issues_to_check = <<>>
    /\ verbose = FALSE
    /\ idx = 0
    /\ all_issues = NoIssues
    /\ all_affected_triples = <<>>
    /\ executed_functions = {}
    /\ calls = [f \in Analyzers |-> 0]
    /\ outputs = [f \in {} |-> <<>>]
    /\ faulted = FALSE
    /\ last = NoRun
    /\ earlier = {}
    /\ trav = NoTraversal

\* the registry at work on a parsed store
Init == graph \in ExampleStores /\ InitLocals

Next ==
    \/ \E r \in Range(get_cli_choices) \cup {"no-such-issue"} : Resolve(r)
    \/ \E list \in BoundedSeqs(RequestPool, MaxRequestLen) : Request(list)
    \/ \E vb \in BOOLEAN : ExecBegin(vb)
    \/ ExecIter
    \/ ExecReturn
    \/ Finish
    \/ \E f \in DeviceAnalyzers, vb \in BOOLEAN, ord \in EnumOrders, hashord \in EnumOrders :
          RunAnalyzer(f, vb, ord, hashord)
    \/ Discard

Spec == Init /\ [][Next]_vars

\* the device analyzers run directly on every generated store
InitAnalyzers == graph \in GeneratedStores /\ InitLocals

NextAnalyzers ==
    \/ \E f \in DeviceAnalyzers, vb \in BOOLEAN, ord \in EnumOrders, hashord \in EnumOrders :
          RunAnalyzer(f, vb, ord, hashord)
    \/ Discard

SpecAnalyzers == InitAnalyzers /\ [][NextAnalyzers]_vars

\* one registry called again and again with lists of the caller's own
NextCalls ==
    \/ \E list \in BoundedSeqs(RequestPool, MaxRequestLen) : Request(list)
    \/ \E vb \in BOOLEAN : ExecBegin(vb)
    \/ ExecIter
    \/ ExecReturn
    \/ FinishAndGoOn

SpecCalls == Init /\ [][NextCalls]_vars

\* check_missing_properties run directly on Devices with and without properties
PropertyAnalyzers == {"check_missing_properties", "check_subnet_mismatches"}

InitProperties == graph \in PropertyStores \cup MismatchStores /\ InitLocals

NextProperties ==
    \/ \E f \in PropertyAnalyzers, vb \in BOOLEAN, ord \in EnumOrders :
          RunAnalyzer(f, vb, ord, "asc")
    \/ Discard

SpecProperties == InitProperties /\ [][NextProperties]_vars

\* the connectivity analyzers run directly on the generated topologies
TopologyAnalyzers == {"check_missing_routers", "check_unreachable_networks"}

InitTopology == graph \in TopologyStores /\ InitLocals

NextTopology ==
    \/ \E f \in TopologyAnalyzers, vb \in BOOLEAN, ord \in EnumOrders, hashord \in EnumOrders :
          RunAnalyzer(f, vb, ord, hashord)
    \/ Discard

SpecTopology == InitTopology /\ [][NextTopology]_vars

\* the routing analyzers run directly on the generated stores of routers
RoutingAnalyzers == {"check_network_loops", "check_duplicate_networks"}

InitRouting == graph \in RoutingStores \cup PeerStores /\ InitLocals

NextRouting ==
    \/ \E f \in RoutingAnalyzers, vb \in BOOLEAN, ord \in EnumOrders, hashord \in EnumOrders :
          RunAnalyzer(f, vb, ord, hashord)
    \/ Discard

SpecRouting == InitRouting /\ [][NextRouting]_vars

PathAnalyzers == {"check_routing_inefficiencies", "check_network_loops"}

InitPaths == graph \in PathStores \cup RingStores /\ InitLocals

NextPaths ==
    \/ \E f \in PathAnalyzers, vb \in BOOLEAN, ord \in EnumOrders, hashord \in EnumOrders :
          RunAnalyzer(f, vb, ord, hashord)
    \/ Discard

SpecPaths == InitPaths /\ [][NextPaths]_vars

InitBroadcast == graph \in BroadcastStores /\ InitLocals

NextBroadcast ==
    \/ \E vb \in BOOLEAN, ord \in EnumOrders, hashord \in EnumOrders :
          RunAnalyzer("check_broadcast_domains", vb, ord, hashord)
    \/ Discard

SpecBroadcast == InitBroadcast /\ [][NextBroadcast]_vars

InitSizes == graph \in SizeStores /\ InitLocals

NextSizes ==
    \/ \E vb \in BOOLEAN, ord \in EnumOrders, hashord \in EnumOrders :
          RunAnalyzer("check_oversized_networks", vb, ord, hashord)
    \/ Discard

SpecSizes == InitSizes /\ [][NextSizes]_vars

\* the traversals of the analyzers run statement by statement; the
\* interpreter, once in a traversal, goes on to its next statement
InitTraversals == graph \in TraversalStores /\ InitLocals

NextTraversals ==
    \/ \E hashord \in EnumOrders : IslandsStart(hashord)
    \/ \E ord \in EnumOrders, hashord \in EnumOrders : PathsStart(ord, hashord)
    \/ \E ord \in EnumOrders, hashord \in EnumOrders : LoopsStart(ord, hashord)
    \/ \E ord \in EnumOrders, hashord \in EnumOrders : PointsStart(ord, hashord)
    \/ \E ord \in EnumOrders : CyclesStart(ord)
    \/ IslandsStep
    \/ PathsStep
    \/ LoopsStep
    \/ PointsStep
    \/ CyclesStep
    \/ TraversalEnd

SpecTraversals == InitTraversals /\ [][NextTraversals]_vars /\ WF_vars(TraversalStep)

-----------------------------------------------------------------------------
(* Properties of the registry *)

CallOver == pc \in {"returned", "raised"}

\* the analyzers that own at least one requested registered type
RequestedOwners ==
    {checks[issues_to_check[i]].function :
        i \in {j \in 1..Len(issues_to_check) : issues_to_check[j] \in IssueTypes}}

\* the other catalog types computed by the analyzer of T
Siblings(T) == {u \in IssueTypes \ {T} : checks[u].function = checks[T].function}

\* the first requested type owned by analyzer f: the one whose pass calls f
FirstRequestedOf(f) ==
    LET at == {i \in 1..Len(issues_to_check) :
                 issues_to_check[i] \in IssueTypes /\
                 checks[issues_to_check[i]].function = f}
    IN issues_to_check[CHOOSE i \in at : \A j \in at : i <= j]

\* C1: when an execute_checks call is over (and the store did not fail),
\* every analyzer owning a requested registered type was invoked exactly once,
\* whatever the list of requested types.
C1_EachOwnerInvokedOnce ==
    (CallOver /\ ~faulted) => \A f \in RequestedOwners : calls[f] = 1

\* C2: when execute_checks has called a multi-result analyzer, the result
\* mapping has a bucket for the requested type and for each sibling type, and
\* bucket T holds exactly the findings of that one output whose issue_type is
\* T; the buckets together hold every finding of the output once.
C2_MultiResultPartition ==
    (CallOver /\ ~faulted) =>
        \A f \in RequestedOwners :
            LET T == FirstRequestedOf(f)
                family == {T} \cup Siblings(T)
            IN (~checks[T].single_check /\ calls[f] > 0) =>
                 /\ f \in DOMAIN outputs
                 /\ family \subseteq DOMAIN all_issues
                 /\ \A u \in family :
                      all_issues[u] =
                        LET is(i) == "issue_type" \in DOMAIN i /\ i["issue_type"] = u
                        IN SelectSeq(outputs[f], is)
                 /\ \A i \in 1..Len(outputs[f]) :
                      Cardinality({u \in family :
                                     \E k \in 1..Len(all_issues[u]) :
                                        all_issues[u][k] = outputs[f][i]}) = 1

\* C3: when an analyzer has failed during a run over the full catalog
\* (issue = all), execute_checks does not abort: the failure counts as zero
\* findings and every other analyzer of the catalog is still executed.
C3_BestEffortOverAll ==
    (requested = "all" /\ faulted) =>
        /\ pc # "raised"
        /\ pc = "returned" => \A f \in Analyzers : calls[f] = 1

\* C4: for every catalog type T and every store, execute_checks on
\* resolve_issues_to_check(T) returns normally and its result has a bucket T.
C4_CatalogCallReturnsBucket ==
    (requested \in IssueTypes /\ CallOver /\ ~faulted) =>
        (pc = "returned" /\ requested \in DOMAIN all_issues)

\* C5: resolve_issues_to_check maps 'all' to exactly the catalog types, a
\* single-result type to the list of that type, a multi-result type to that
\* type followed by all its sibling types and an unknown name to the list of
\* that name; get_cli_choices is the catalog types plus 'all'.
C5_ResolveMapping ==
    /\ Range(get_cli_choices) = IssueTypes \cup {"all"}
    /\ Len(get_cli_choices) = Cardinality(IssueTypes) + 1
    /\ (pc = "resolved" /\ requested # "(list)") =>
         LET res == issues_to_check IN
         CASE requested = "all" ->
                Range(res) = IssueTypes /\ Len(res) = Cardinality(IssueTypes)
           [] requested \in IssueTypes /\ Siblings(requested) = {} ->
                res = <<requested>>
           [] requested \in IssueTypes /\ Siblings(requested) # {} ->
                /\ res[1] = requested
                /\ Range(Tail(res)) = Siblings(requested)
                /\ Len(res) = 1 + Cardinality(Siblings(requested))
           [] OTHER -> res = <<requested>>

C5_Witness ==
    /\ pc = "resolved"
    /\ requested = "broadcast-domain-warning"
    /\ Len(issues_to_check) = 4

\* C6: no step of execute_checks, no analyzer run inside it and no analyzer
\* run directly changes the triple store: it stays what it was before.
C6_StoreReadOnly == [][graph' = graph]_vars

C6_Witness ==
    /\ pc = "returned"
    /\ graph # {}
    /\ \E f \in Analyzers : calls[f] = 1
    /\ \E t \in DOMAIN all_issues : all_issues[t] # <<>>

-----------------------------------------------------------------------------
(* Properties of the analyzers *)

Issues(run) == run.result.value[1]

Count(x, s) == Cardinality({i \in 1..Len(s) : s[i] = x})

\* the same findings, each as often, in any order
SameBag(s, t) ==
    /\ Len(s) = Len(t)
    /\ \A i \in 1..Len(s) : Count(s[i], s) = Count(s[i], t)

\* the subjects typed Device
TypedDevices == {t[1] : t \in {u \in graph : u[2] = P_type /\ u[3] = C_Device}}

\* the findings of a run about device d
About(run, d) == {i \in 1..Len(Issues(run)) : Issues(run)[i].device = d}

\* C7: for a fixed store and verbose flag every analyzer yields the same
\* multiset of findings whatever the enumeration order: the findings of a run
\* are those of the run that enumerates in ascending order.
C7_Determinism ==
    last.fn # "" =>
        SameBag(Issues(last),
                Analyze(last.fn, graph, last.verbose, "asc", "asc").value[1])

Holders(v) == {t[1] : t \in {u \in graph : u[2] = P_instance /\ u[3] = v}}
ScopesOf(d) ==
    {t[3] : t \in {u \in graph : u[1] = d /\ u[2] \in {P_onnetwork, P_onsubnet}}}
SpanOf(v) == UNION {ScopesOf(d) : d \in Holders(v)}
InstanceValues == {t[3] : t \in {u \in graph : u[2] = P_instance}}

C9_InvalidRangeExactly ==
    last.fn = "check_invalid_device_ranges" =>
        \A d \in TypedDevices :
            LET vals    == TriplesSP(graph, d, P_instance, last.ord)
                present == vals # <<>>
                n       == ParseInt(vals[1][3])
                inrange == n.ok /\ n.val >= 0 /\ n.val <= 4194303
            IN /\ Cardinality(About(last, d)) = IF present /\ ~inrange THEN 1 ELSE 0
               /\ \A i \in About(last, d) : Issues(last)[i].severity = "critical"

S_VendorMark == <<":","/","/","v","e","n","d","o","r","/">>

\* N of scheme://vendor/N, for any scheme; the value itself otherwise
NOfAnyScheme(v) ==
    LET at == {i \in 1..Len(v) : SubSeq(v, i, i + Len(S_VendorMark) - 1) = S_VendorMark}
    IN IF at = {} THEN v
       ELSE SubSeq(v, (CHOOSE i \in at : \A j \in at : i <= j) + Len(S_VendorMark), Len(v))

\* the finding the vendor ladder asks for, by its description ("none": no finding)
Ladder(N) ==
    LET n == ParseInt(N)
    IN IF ~n.ok THEN "has invalid vendor-id format"
       ELSE IF n.val < 0 THEN "must be positive"
       ELSE IF n.val = 0 THEN "reserved value"
       ELSE "none"

\* the findings of the last run about d are what `expected` says
VendorOutcome(d, expected) ==
    /\ Cardinality(About(last, d)) = IF expected = "none" THEN 0 ELSE 1
    /\ \A i \in About(last, d) :
         /\ Issues(last)[i].description = expected
         /\ (expected = "is missing vendor-id property")
              <=> (Issues(last)[i].vendor_id = None)

\* C10 as stated: N is taken from a bare integer string or from any
\* scheme://vendor/N reference; an absent vendor-id gives the missing finding
\* (vendor_id null), any present one is judged by the ladder on N.
C10_VendorLadderAnyScheme ==
    last.fn = "check_missing_vendor_ids" =>
        \A d \in TypedDevices :
            ~is_grasshopper(graph, d, last.ord) =>
                LET vals == TriplesSP(graph, d, P_vendor, last.ord)
                IN VendorOutcome(d,
                     IF vals = <<>> THEN "is missing vendor-id property"
                     ELSE Ladder(NOfAnyScheme(vals[1][3])))

\* C10, amended: for every Device other than the Grasshopper sentinel, with
\* v the vendor-id value the store lists first, N is the text after the last
\* '/' of v when v starts with bacnet://vendor/ and v itself otherwise; at most
\* one finding is emitted: an absent or empty v gives the missing finding
\* (vendor_id null), otherwise non-numeric N gives invalid-format, N < 0
\* must-be-positive, N = 0 reserved and N > 0 no finding.
C10_VendorLadder ==
    last.fn = "check_missing_vendor_ids" =>
        \A d \in TypedDevices :
            ~is_grasshopper(graph, d, last.ord) =>
                LET vals == TriplesSP(graph, d, P_vendor, last.ord)
                    v    == vals[1][3]
                IN VendorOutcome(d,
                     IF vals = <<>> \/ v = <<>> THEN "is missing vendor-id property"
                     ELSE IF StartsWith(v, S_VendorPfx) THEN Ladder(LastSegment(v))
                     ELSE Ladder(v))

C10_Witness ==
    /\ last.fn = "check_missing_vendor_ids"
    /\ <<DevA, P_vendor, V_0>> \in graph
    /\ \E i \in About(last, DevA) :
         /\ Issues(last)[i].description = "reserved value"
         /\ Issues(last)[i].vendor_id = PyStr(V_0)

-----------------------------------------------------------------------------
(* Properties of check_missing_properties *)

\* the essential properties Device d has no triple for
MissingOf(d) ==
    {p \in Range(essential_properties) : ~\E t \in graph : t[1] = d /\ t[2] = p}

\* C11: for each Device other than the Grasshopper sentinel
\* check_missing_properties emits a finding iff at least one of the 7 essential
\* properties is missing (one finding per such Device), with severity critical
\* if device-instance, address or vendor-id is missing, otherwise major if 4 or
\* more are missing, otherwise warning if 2 or more, otherwise info.
C11_MissingPropertiesLadder ==
    last.fn = "check_missing_properties" =>
        \A d \in TypedDevices :
            LET hits == About(last, d)
                M    == MissingOf(d)
                sev  == IF M \cap {P_instance, P_address, P_vendor} # {} THEN "critical"
                        ELSE IF Cardinality(M) >= 4 THEN "major"
                        ELSE IF Cardinality(M) >= 2 THEN "warning"
                        ELSE "info"
            IN ~is_grasshopper(graph, d, last.ord) =>
                 /\ Cardinality(hits) = IF M = {} THEN 0 ELSE 1
                 /\ \A i \in hits :
                      /\ Issues(last)[i].severity = sev
                      /\ Issues(last)[i].missing_count = Cardinality(M)

\* a Device that lacks four properties, a critical one among them
C11_Witness ==
    /\ last.fn = "check_missing_properties"
    /\ MissingOf(DevA) = {P_vendor, P_model, P_devname, P_firmware}
    /\ ~is_grasshopper(graph, DevA, last.ord)
    /\ \E i \in About(last, DevA) : Issues(last)[i].severity = "critical"

-----------------------------------------------------------------------------
(* Properties of check_missing_routers *)

Typed(class) == {t[1] : t \in {u \in graph : u[2] = P_type /\ u[3] = class}}
Of(x, p) == {t[3] : t \in {u \in graph : u[1] = x /\ u[2] = p}}
ThroughSubnet(x) == UNION {Of(s, P_subnetof) : s \in Of(x, P_onsubnet)}

\* the networks that carry a Device, directly or through a subnet
NetworksWithDevices ==
    UNION {Of(d, P_onnetwork) \cup ThroughSubnet(d) : d \in Typed(C_Device)}

\* the networks a Router sits on, serves, or reaches through a subnet
NetworksWithRouters ==
    UNION {Of(r, P_onnetwork) \cup Of(r, P_serves) \cup ThroughSubnet(r) :
             r \in Typed(C_Router)}

\* C12: check_missing_routers emits no finding when fewer than 2 networks
\* carry devices; otherwise it emits exactly one medium finding iff the set
\* (networks with devices) minus (networks with a router) is non-empty, and
\* that finding lists exactly the networks of that set difference.
C12_MissingRouters ==
    last.fn = "check_missing_routers" =>
        LET iss  == Issues(last)
            diff == NetworksWithDevices \ NetworksWithRouters
        IN /\ Cardinality(NetworksWithDevices) < 2 => iss = <<>>
           /\ Cardinality(NetworksWithDevices) >= 2 =>
                /\ Len(iss) = IF diff # {} THEN 1 ELSE 0
                /\ \A i \in 1..Len(iss) :
                     /\ iss[i].severity = "medium"
                     /\ Len(iss[i].isolated_networks) = Cardinality(diff)
                     /\ {iss[i].isolated_networks[k].network_uri :
                            k \in 1..Len(iss[i].isolated_networks)} = diff

\* two networks carry devices, a Router is attached to one of them only
C12_Witness ==
    /\ last.fn = "check_missing_routers"
    /\ Cardinality(NetworksWithDevices) = 2
    /\ Cardinality(NetworksWithDevices \cap NetworksWithRouters) = 1
    /\ Len(Issues(last)) = 1
    /\ Len(Issues(last)[1].isolated_networks) = 1

-----------------------------------------------------------------------------
(* Properties of check_unreachable_networks *)

\* the networks a Router sits on, directly or through a subnet
SitsOn(r) == Of(r, P_onnetwork) \cup ThroughSubnet(r)

\* every network a Router is attached to is a BACnetNetwork of the store
WellTyped ==
    \A r \in Typed(C_Router) : SitsOn(r) \cup Of(r, P_serves) \subseteq Typed(C_Network)

\* the adjacency graph: a and b are joined when some Router sits on both, or
\* (with `served`) sits on one and serves the other
Joined(a, b, served) ==
    /\ a # b
    /\ \E r \in Typed(C_Router) :
          \/ {a, b} \subseteq SitsOn(r)
          \/ served /\ a \in Of(r, P_onnetwork) /\ b \in Of(r, P_serves)
          \/ served /\ b \in Of(r, P_onnetwork) /\ a \in Of(r, P_serves)

\* the island of network n: its connected component among the networks nets
RECURSIVE Component(_, _, _)
Component(seen, nets, served) ==
    LET more == seen \cup {b \in nets : \E a \in seen : Joined(a, b, served)}
    IN IF more = seen THEN seen ELSE Component(more, nets, served)

\* nothing for fewer than 2 networks or one island, else one finding per
\* network: isolated with 0 reachable networks, or partial with island size - 1
IslandFindings(served) ==
    LET iss   == Issues(last)
        nets  == Typed(C_Network)
        comps == {Component({n}, nets, served) : n \in nets}
    IN IF Cardinality(nets) < 2 \/ Cardinality(comps) = 1 THEN iss = <<>>
       ELSE /\ Len(iss) = Cardinality(nets)
            /\ \A n \in nets : \E i \in 1..Len(iss) :
                  /\ iss[i].network = n
                  /\ iss[i].reachable_networks = Cardinality(Component({n}, nets, served)) - 1
                  /\ iss[i].isolation_type =
                       IF Cardinality(Component({n}, nets, served)) = 1
                       THEN "isolated" ELSE "partial"

\* C13: check_unreachable_networks partitions the networks into the islands
\* (connected components) of the undirected adjacency graph, the graph that
\* joins two networks a Router sits on or a Router sits on and serves; with
\* fewer than 2 networks or exactly one island it emits nothing; with more
\* than one island it emits exactly one finding per network: isolated with
\* reachable_networks 0 for a singleton island, partial with reachable_networks
\* = island size - 1 for a member of a larger island.  (Stated for stores in
\* which every network a Router is attached to is typed BACnetNetwork.)
C13_IslandFindings ==
    (last.fn = "check_unreachable_networks" /\ WellTyped) => IslandFindings(TRUE)

\* C14: two networks A and B such that some Router has device-on-network A
\* and serves-network B are in the same island: no finding reports one of
\* them as isolated, and a finding about one of them lists both in its island.
C14_ServedNetworksShareIsland ==
    last.fn = "check_unreachable_networks" =>
        \A r \in Typed(C_Router) :
          \A a \in Of(r, P_onnetwork), b \in Of(r, P_serves) :
            \A i \in 1..Len(Issues(last)) :
              (a # b /\ Issues(last)[i].network \in {a, b}) =>
                  /\ Issues(last)[i].isolation_type = "partial"
                  /\ {a, b} \subseteq Range(Issues(last)[i].island_networks)

-----------------------------------------------------------------------------
(* Properties of check_network_loops *)

\* the routers that sit on network a and serve network b
Routing(a, b) == {r \in Typed(C_Router) : a \in Of(r, P_onnetwork) /\ b \in Of(r, P_serves)}

\* the adjacency graph of the routers: its networks and its (undirected) edges
RoutedNetworks ==
    UNION {Of(r, P_onnetwork) \cup Of(r, P_serves) :
             r \in {x \in Typed(C_Router) : Of(x, P_onnetwork) # {} /\ Of(x, P_serves) # {}}}
Adjacent(a, b) == a # b /\ Routing(a, b) \cup Routing(b, a) # {}

\* S is the set of networks of a cycle of the adjacency graph
IsCycle(S) ==
    /\ Cardinality(S) >= 3
    /\ \E c \in [1..Cardinality(S) -> S] :
          /\ \A i, j \in DOMAIN c : i # j => c[i] # c[j]
          /\ \A i \in DOMAIN c : Adjacent(c[i], c[(i % Cardinality(S)) + 1])
Cycles == {S \in SUBSET RoutedNetworks : IsCycle(S)}

\* the findings of the run whose loop runs through exactly the networks S
LoopsThrough(S) ==
    {i \in 1..Len(Issues(last)) : Range(Issues(last)[i].details.networks_in_loop) = S}

\* C16: when the adjacency graph consists of two networks A and B that route
\* to each other (a Router on A serves B and a Router on B serves A),
\* check_network_loops emits exactly one finding, critical and with loop_size
\* 2, about A and B, whichever of the two the traversal meets first.
C16_MutualRoutingOneFinding ==
    last.fn = "check_network_loops" =>
        \A a, b \in RoutedNetworks :
            (a # b /\ RoutedNetworks = {a, b} /\ Routing(a, b) # {} /\ Routing(b, a) # {}) =>
                /\ Len(Issues(last)) = 1
                /\ Issues(last)[1].severity = "critical"
                /\ Issues(last)[1].loop_size = 2
                /\ LoopsThrough({a, b}) = {1}

\* mutual routing between net1 and net2, the traversal starting at net2
C16_Witness ==
    /\ last.fn = "check_network_loops"
    /\ RoutedNetworks = {Net(1), Net(2)}
    /\ Routing(Net(1), Net(2)) # {} /\ Routing(Net(2), Net(1)) # {}
    /\ Len(Issues(last)) = 1
    /\ Issues(last)[1].loop_path = <<Net(2), Net(1), Net(2)>>

\* C17: for adjacency graphs of 3 or more networks check_network_loops
\* reports each unique cycle (a cycle taken up to rotation and starting point,
\* that is by the networks on it) as exactly one finding whose loop_size is the
\* number of networks in the cycle and whose severity is critical if the cycle
\* has 4 or fewer networks and warning otherwise.
C17_EachCycleOnce ==
    (last.fn = "check_network_loops" /\ Cardinality(RoutedNetworks) >= 3) =>
        /\ \A i \in 1..Len(Issues(last)) :
              Range(Issues(last)[i].details.networks_in_loop) \in Cycles
        /\ \A S \in Cycles :
              /\ Cardinality(LoopsThrough(S)) = 1
              /\ \A i \in LoopsThrough(S) :
                    /\ Issues(last)[i].loop_size = Cardinality(S)
                    /\ Issues(last)[i].severity =
                         IF Cardinality(S) <= 4 THEN "critical" ELSE "warning"

\* C18: check_network_loops reports a loop only when there are multiple
\* routing paths between networks: when the adjacency graph has no cycle and
\* no two networks are joined by more than one connection (a chain or a tree
\* of networks, two networks joined by one router) it emits zero findings.
C18_NoLoopNoFinding ==
    last.fn = "check_network_loops" =>
        LET single(a, b) ==
                Cardinality({<<r, 1>> : r \in Routing(a, b)}
                            \cup {<<r, 2>> : r \in Routing(b, a)}) <= 1
        IN (Cycles = {} /\ \A a, b \in RoutedNetworks : a # b => single(a, b)) =>
               Issues(last) = <<>>

-----------------------------------------------------------------------------
(* Properties of check_duplicate_networks *)

\* the Routers that hold network number n, and the subnets they are on
HoldersOf(n) == {r \in Typed(C_Router) : n \in Of(r, P_onnetwork)}
SubnetsOf(n) == UNION {Of(r, P_onsubnet) : r \in HoldersOf(n)}

\* C19: check_duplicate_networks emits exactly one finding for each network
\* number held by more than one Router and none for a network held by one
\* Router; the finding is duplicate-router when those routers share exactly
\* one device-on-subnet value (their subnets are one subnet), and
\* duplicate-network when they span more than one subnet.
C19_DuplicateNetworks ==
    last.fn = "check_duplicate_networks" =>
        LET iss == Issues(last) IN
        /\ \A i \in 1..Len(iss) : HoldersOf(iss[i].network) # {}
        /\ \A n \in UNION {Of(r, P_onnetwork) : r \in Typed(C_Router)} :
             LET hits == {i \in 1..Len(iss) : iss[i].network = n}
             IN /\ Cardinality(hits) = IF Cardinality(HoldersOf(n)) > 1 THEN 1 ELSE 0
                /\ \A i \in hits :
                     /\ Cardinality(SubnetsOf(n)) = 1 => iss[i].issue_type = "duplicate-router"
                     /\ Cardinality(SubnetsOf(n)) > 1 => iss[i].issue_type = "duplicate-network"

\* two Routers hold one network number, each on a subnet of its own
C19_Witness ==
    /\ last.fn = "check_duplicate_networks"
    /\ \E i \in 1..Len(Issues(last)) :
          /\ Issues(last)[i].issue_type = "duplicate-network"
          /\ Cardinality(HoldersOf(Issues(last)[i].network)) = 2
          /\ \A r \in HoldersOf(Issues(last)[i].network) : Cardinality(Of(r, P_onsubnet)) = 1
          /\ Cardinality(SubnetsOf(Issues(last)[i].network)) = 2

\* every Device of the store has at most one address and every Subnet at
\* most one subnet-address
SingleValued ==
    /\ \A d \in Typed(C_Device) : Cardinality(Of(d, P_address)) <= 1
    /\ \A s \in Typed(C_Subnet) : Cardinality(Of(s, P_subnetaddr)) <= 1

\* the (Device, Subnet) pairs with the Device assigned to the Subnet, its
\* address and the Subnet's range both IP values, the address outside the range
Mismatched ==
    {pair \in Typed(C_Device) \X Typed(C_Subnet) :
        /\ pair[2] \in Of(pair[1], P_onsubnet)
        /\ \E a \in Of(pair[1], P_address), c \in Of(pair[2], P_subnetaddr) :
              /\ ip_address(a).ok
              /\ ip_network(c).ok
              /\ ~ip_in_network(ip_address(a), ip_network(c))}

\* C15: check_subnet_mismatches emits a medium finding for exactly those
\* (Device, Subnet) pairs where the Device is assigned to the Subnet, the
\* Subnet has a subnet-address CIDR, the Device has an address, both parse as
\* IP values and the address lies outside the range, every subnet of a Device
\* assigned to several subnets included; a Device whose address does not parse
\* as an IP produces no finding.
C15_SubnetMismatches ==
    (last.fn = "check_subnet_mismatches" /\ SingleValued) =>
        LET iss == Issues(last) IN
        /\ \A i \in 1..Len(iss) : iss[i].severity = "medium"
        /\ {<<iss[i].device, iss[i].subnet>> : i \in 1..Len(iss)} = Mismatched
        /\ \A i \in 1..Len(iss) :
              \E a \in Of(iss[i].device, P_address) : ip_address(a).ok

\* the devices counted for network n, directly or through its subnets
CountedOn(n) ==
    {t[1] : t \in {u \in graph : u[2] = P_onnetwork /\ u[3] = n}}
      \cup {t[1] : t \in {u \in graph : u[2] = P_onsubnet
                                         /\ <<u[3], P_subnetof, n>> \in graph}}

\* the (warning, critical) thresholds of the stated table
StatedThresholds(type) ==
    CASE type = "mstp" -> <<15, 30>>
      [] type = "ip" -> <<50, 100>>
      [] type = "ethernet" -> <<50, 100>>
      [] type = "arcnet" -> <<15, 25>>
      [] type = "ptp" -> <<2, 3>>
      [] type = "other" -> <<25, 50>>

\* C20: for each BACnetNetwork with at least one device, with (w, c) the
\* (warning, critical) thresholds of its detected type (mstp (15,30), ip
\* (50,100), ethernet (50,100), arcnet (15,25), ptp (2,3), other (25,50)) and
\* n its number of distinct devices counted directly or through its subnets,
\* check_oversized_networks emits exactly one oversized-networks-critical
\* finding if n reaches c, otherwise exactly one oversized-networks-warning
\* finding if n reaches w, otherwise none; 17 devices on an mstp network give
\* a warning and 17 devices on an ip network give nothing.
C20_OversizedLadder ==
    last.fn = "check_oversized_networks" =>
        /\ \A i \in 1..Len(Issues(last)) :
              /\ Issues(last)[i].network \in Typed(C_Network)
              /\ CountedOn(Issues(last)[i].network) # {}
        /\ \A n \in Typed(C_Network) :
           \A devices \in {CountedOn(n)} :
           \A type \in {IF devices = {} THEN ""
                         ELSE detect_network_type(graph, n, devices,
                                                  last.ord, last.hashord)} :
           \A hits \in {{i \in 1..Len(Issues(last)) : Issues(last)[i].network = n}} :
           \A count \in {Cardinality(devices)} :
              count > 0 =>
                /\ Cardinality(hits) = IF count >= StatedThresholds(type)[1] THEN 1 ELSE 0
                /\ \A i \in hits :
                      /\ Issues(last)[i].network_type = type
                      /\ Issues(last)[i].device_count = count
                      /\ Issues(last)[i].issue_type =
                           IF count >= StatedThresholds(type)[2]
                           THEN "oversized-networks-critical"
                           ELSE "oversized-networks-warning"
                /\ (count = 17 /\ type = "mstp") =>
                      \E i \in hits : Issues(last)[i].severity = "warning"
                /\ (count = 17 /\ type = "ip") => hits = {}

\* a network detected as mstp with 17 devices, two of them through a subnet,
\* and its warning
C20_Witness ==
    /\ last.fn = "check_oversized_networks"
    /\ \E i \in 1..Len(Issues(last)) :
          /\ Issues(last)[i].network_type = "mstp"
          /\ Issues(last)[i].device_count = 17
          /\ Issues(last)[i].issue_type = "oversized-networks-warning"
          /\ Cardinality(CountedOn(Issues(last)[i].network)) = 17
          /\ \E t \in graph : t[2] = P_subnetof /\ t[3] = Issues(last)[i].network

-----------------------------------------------------------------------------
(* Routing inefficiencies *)

\* the connectivity graph: two different BACnetNetworks are linked when a
\* Router is on one of them and serves the other
Linked(a, b) ==
    /\ a # b
    /\ {a, b} \subseteq Typed(C_Network)
    /\ Routing(a, b) \cup Routing(b, a) # {}

\* the findings of kind t of a run
OfKind(run, t) == {i \in 1..Len(Issues(run)) : Issues(run)[i].issue_type = t}

\* p lists the networks of a cycle of more than 2 networks
IsRing(p) ==
    /\ Len(p) > 2
    /\ \A i, j \in DOMAIN p : i # j => p[i] # p[j]
    /\ \A i \in DOMAIN p : Linked(p[i], p[(i % Len(p)) + 1])

\* C22: every routing-loop finding of check_routing_inefficiencies describes
\* a cycle of more than 2 networks of the connectivity graph; two networks
\* joined by a single connection, and a connectivity graph without a cycle,
\* give no routing-loop finding.
C22_RoutingLoops ==
    last.fn = "check_routing_inefficiencies" =>
        \A i \in OfKind(last, "routing-loop") :
            LET path == Issues(last)[i].details.loop_path
            IN /\ Issues(last)[i].loop_length > 2
               /\ IsRing(SubSeq(path, 1, Len(path) - 1))

\* the links of the connectivity graph as a set of ordered pairs: the
\* (on, served) pairs of the Routers and their reverses
Links ==
    LET on == {t \in graph : t[2] = P_onnetwork /\ t[1] \in Typed(C_Router)}
        served == {t \in graph : t[2] = P_serves}
        hops == {<<h[1][3], h[2][3]>> :
                   h \in {p \in on \X served :
                            /\ p[1][1] = p[2][1] /\ p[1][3] # p[2][3]
                            /\ {p[1][3], p[2][3]} \subseteq Typed(C_Network)}}
    IN hops \cup {<<e[2], e[1]>> : e \in hops}

\* the networks a link leads to from a
LinkedTo(links, a) == {e[2] : e \in {l \in links : l[1] = a}}

\* layers[k + 1] is the set of networks of V within k hops of the first
\* layer, along links that stay inside V; `more` further layers are added
RECURSIVE Layers(_, _, _, _)
Layers(links, V, layers, more) ==
    LET grown(near) == near \cup (V \cap UNION {LinkedTo(links, s) : s \in near})
    IN IF more = 0 THEN layers
       ELSE CHOOSE r \in {Layers(links, V, Append(l, grown(l[Len(l)])), more - 1) :
                            l \in {layers}} : TRUE

HopLayers(links, V, a) == Layers(links, V, <<{a} \cap V>>, Cardinality(V))

\* the networks of V connected to a inside V
Reachable(links, V, a) == HopLayers(links, V, a)[Cardinality(V) + 1]

\* the networks whose removal disconnects networks that were connected: the
\* networks that link to two networks not connected without them
CutVertices(links, V) ==
    {n \in V : \E a \in LinkedTo(links, n) :
                  ~(LinkedTo(links, n) \subseteq Reachable(links, V \ {n}, a))}

\* the connectivity map the analyzer builds for the store and orders of a run
BuiltRoutingGraph(run) ==
    build_routing_graph(graph, Typed(C_Router), Typed(C_Network), run.ord, run.hashord)

\* C28: the network_connections relation of _build_routing_graph is
\* symmetric (B is in connections[A] iff A is in connections[B]) and
\* check_routing_inefficiencies emits no asymmetric-routing finding.
C28_SymmetricConnections ==
    last.fn = "check_routing_inefficiencies" =>
        /\ \A rg \in {BuiltRoutingGraph(last)} :
              \A a, b \in rg.all_networks :
                 b \in rg.network_connections.of[a] <=> a \in rg.network_connections.of[b]
        /\ OfKind(last, "asymmetric-routing") = {}

\* a run on a store where some Router is on A and serves B and none is on B
\* and serves A
C28_Witness ==
    /\ last.fn = "check_routing_inefficiencies"
    /\ ~last.result.raised
    /\ \E e \in Links : Routing(e[1], e[2]) # {} /\ Routing(e[2], e[1]) = {}
    /\ OfKind(last, "asymmetric-routing") = {}

\* C23: with more than 2 networks in the routing graph the networks that get
\* a missing-redundancy finding are exactly the cut vertices of the
\* connectivity graph, one finding each; with 2 or fewer networks there is no
\* missing-redundancy finding.
C23_CutVertices ==
    last.fn = "check_routing_inefficiencies" =>
        \A links \in {Links} : \A V \in {Typed(C_Network)} :
        \A found \in {OfKind(last, "missing-redundancy")} :
           IF Cardinality(V) > 2
           THEN /\ {Issues(last)[i].network : i \in found} = CutVertices(links, V)
                /\ \A i, j \in found :
                      Issues(last)[i].network = Issues(last)[j].network => i = j
           ELSE found = {}

\* a run that reports two cut vertices, one of them the network the
\* traversal starts from
C23_Witness ==
    /\ last.fn = "check_routing_inefficiencies"
    /\ Cardinality(OfKind(last, "missing-redundancy")) >= 2
    /\ \E i \in OfKind(last, "missing-redundancy") :
          Issues(last)[i].network =
             TermsInOrder(Typed(C_Network), last.hashord)[1]

\* C27: check_routing_inefficiencies emits a suboptimal-routing-path warning
\* for exactly the ordered pairs (source, target) of distinct networks whose
\* shortest-path distance is greater than 4 hops; path_length is that
\* distance and the path is a sequence of pairwise linked networks from
\* source to target of that length.
C27_LongPaths ==
    last.fn = "check_routing_inefficiencies" =>
        \A links \in {Links} : \A V \in {Typed(C_Network)} :
        \A found \in {OfKind(last, "suboptimal-routing-path")} :
           /\ \A a \in V : \A layers \in {HopLayers(links, V, a)} :
              \A from_a \in {{i \in found : Issues(last)[i].source_network = a}} :
                 /\ {Issues(last)[i].target_network : i \in from_a}
                      = (IF Len(layers) > 5 THEN layers[Len(layers)] \ layers[5] ELSE {})
                 /\ \A i, j \in from_a :
                       Issues(last)[i].target_network = Issues(last)[j].target_network
                          => i = j
                 /\ \A i \in from_a :
                       /\ Issues(last)[i].target_network \in layers[Issues(last)[i].path_length + 1]
                       /\ Issues(last)[i].target_network \notin layers[Issues(last)[i].path_length]
           /\ \A i \in found :
                 LET f == Issues(last)[i]
                     path == f.details.routing_path
                 IN /\ f.severity = "warning"
                    /\ f.source_network \in V /\ f.source_network # f.target_network
                    /\ Len(path) = f.path_length + 1
                    /\ path[1] = f.source_network /\ path[Len(path)] = f.target_network
                    /\ \A k \in 1..(Len(path) - 1) : <<path[k], path[k + 1]>> \in links

\* a run that reports a path of five hops
C27_Witness ==
    /\ last.fn = "check_routing_inefficiencies"
    /\ \E i \in OfKind(last, "suboptimal-routing-path") :
          /\ Issues(last)[i].path_length = 5
          /\ Len(Issues(last)[i].details.routing_path) = 6

\* the adjacency map check_network_loops builds for the store of a run
BuiltNetworkGraph(run) == build_network_graph(router_edges(graph, run.ord))

\* C26: the adjacency map built from routers for loop detection has an edge
\* between networks A and B iff some Router has an (on, served) pair equal to
\* (A, B) or (B, A) with A different from B: the map is symmetric and no
\* network is adjacent to itself, even when a router serves the network it
\* sits on.
C26_AdjacencyMap ==
    /\ last.fn = "check_network_loops" =>
          \A ng \in {BuiltNetworkGraph(last)} :
             \A a, b \in Range(ng.keys) :
                /\ b \in Range(ng.adj[a]) <=> Adjacent(a, b)
                /\ b \in Range(ng.adj[a]) <=> a \in Range(ng.adj[b])
                /\ a \notin Range(ng.adj[a])
    /\ last.fn = "check_routing_inefficiencies" =>
          \A rg \in {BuiltRoutingGraph(last)} :
             \A a, b \in rg.all_networks :
                /\ b \in rg.network_connections.of[a] <=> Linked(a, b)
                /\ a \notin rg.network_connections.of[a]

-----------------------------------------------------------------------------
(* The depth-capped cycle search *)

\* the edges of the adjacency graph of check_network_loops as ordered pairs
\* of different networks
AdjacentPairs ==
    LET on == {t \in graph : t[2] = P_onnetwork /\ t[1] \in Typed(C_Router)}
        served == {t \in graph : t[2] = P_serves}
        hops == {<<h[1][3], h[2][3]>> :
                   h \in {p \in on \X served : p[1][1] = p[2][1] /\ p[1][3] # p[2][3]}}
    IN hops \cup {<<e[2], e[1]>> : e \in hops}

\* the simple paths of k networks along links
RECURSIVE SimplePaths(_, _, _)
SimplePaths(links, V, k) ==
    IF k = 1 THEN {<<n>> : n \in V}
    ELSE CHOOSE longer \in
           {UNION {{Append(p, b) : b \in LinkedTo(links, p[Len(p)]) \ Range(p)} : p \in shorter} :
              shorter \in {SimplePaths(links, V, k - 1)}} : TRUE

\* the numbers k >= 3 such that the graph has a simple cycle of k networks
CycleSizes(links, V) ==
    {k \in 3..Cardinality(V) :
        \E p \in SimplePaths(links, V, k) : <<p[k], p[1]>> \in links}

\* C29: if the adjacency graph given to check_network_loops has 3 or more
\* networks and contains a simple cycle of k networks with 3 <= k <= 6, at
\* least one network-loops finding is emitted, whatever the order in which
\* start nodes and neighbours are visited; a graph whose only cycles have more
\* than 6 networks yields no finding.
C29_DepthCap ==
    last.fn = "check_network_loops" =>
        \A sizes \in {CycleSizes(AdjacentPairs, RoutedNetworks)} :
           /\ (Cardinality(RoutedNetworks) >= 3 /\ sizes \cap 3..6 # {})
                 => Len(Issues(last)) >= 1
           /\ (sizes # {} /\ sizes \cap 3..6 = {}) => Issues(last) = <<>>

\* a run on a ring of six networks, which is reported
C29_Witness ==
    /\ last.fn = "check_network_loops"
    /\ Cardinality(RoutedNetworks) = 6
    /\ CycleSizes(AdjacentPairs, RoutedNetworks) = {6}
    /\ Len(Issues(last)) = 1
    /\ Issues(last)[1].loop_size = 6

\* a run on a ring of more than six networks, which is not reported
C29_BeyondCap ==
    /\ last.fn = "check_network_loops"
    /\ CycleSizes(AdjacentPairs, RoutedNetworks) = {Cardinality(RoutedNetworks)}
    /\ Cardinality(RoutedNetworks) > 6
    /\ Issues(last) = <<>>

-----------------------------------------------------------------------------
(* Broadcast domains *)

\* the broadcast domain of network n: its Subnets, the devices on it or on
\* one of its Subnets, the BBMDs on one of its Subnets, and the /24 ranges
\* of the addresses of its devices
DomainSubnets(n) == {s \in Typed(C_Subnet) : n \in Of(s, P_subnetof)}
DomainDevices(n) ==
    {t[1] : t \in {u \in graph : u[2] = P_onnetwork /\ u[3] = n}}
    \cup {t[1] : t \in {u \in graph : u[2] = P_onsubnet /\ u[3] \in DomainSubnets(n)}}
DomainBBMDs(n) ==
    {b \in Typed(C_BBMD) : Of(b, P_bbmdonsubnet) \cap DomainSubnets(n) # {}}
DomainRanges(n) ==
    extract_ip_ranges({t[3] : t \in {u \in graph : u[2] = P_address
                                                   /\ u[1] \in DomainDevices(n)}})

\* more than 2 subnets, or more than 100 devices, or moderate/wide scope, or
\* more than 1 IP range
NeedsBBMD(n) ==
    \/ Cardinality(DomainSubnets(n)) > 2
    \/ Cardinality(DomainDevices(n)) > 100
    \/ determine_broadcast_scope(DomainRanges(n)) \in {"moderate", "wide"}
    \/ Cardinality(DomainRanges(n)) > 1

\* C21: check_broadcast_domains emits a missing-bbmd-coverage finding for a
\* network's broadcast domain iff the domain needs a BBMD and no BBMD is
\* associated with any of the domain's subnets; a domain that has at least
\* one BBMD never gets this finding.
C21_MissingBBMD ==
    last.fn = "check_broadcast_domains" =>
        \A found \in {OfKind(last, "missing-bbmd-coverage")} :
           /\ \A n \in Typed(C_Network) :
                 /\ (\E i \in found : Issues(last)[i].network = n)
                       <=> (NeedsBBMD(n) /\ DomainBBMDs(n) = {})
                 /\ DomainBBMDs(n) # {} =>
                       ~\E i \in found : Issues(last)[i].network = n
           /\ \A i \in found : Issues(last)[i].network \in Typed(C_Network)

\* a run that reports a domain for its device count alone, on a store where
\* a BBMD sits on a subnet outside the domain
C21_Witness ==
    /\ last.fn = "check_broadcast_domains"
    /\ Typed(C_BBMD) # {}
    /\ \E i \in OfKind(last, "missing-bbmd-coverage") :
          /\ Issues(last)[i].subnet_count <= 2
          /\ Issues(last)[i].device_count > 100
          /\ Issues(last)[i].broadcast_scope = "local"

\* a run on a domain that needs a BBMD and has one: no finding
C21_Covered ==
    /\ last.fn = "check_broadcast_domains"
    /\ \E n \in Typed(C_Network) : NeedsBBMD(n) /\ DomainBBMDs(n) # {}
    /\ OfKind(last, "missing-bbmd-coverage") = {}

-----------------------------------------------------------------------------
(* The shape of the findings in the buckets *)

\* the severities of the shared Finding shape
Severities == {"info", "warning", "medium", "major", "critical", "error"}

\* C24: every finding that execute_checks places in the bucket of issue type
\* T carries an issue_type attribute equal to T and a severity attribute that
\* is one of info, warning, medium, major, critical, error.
C24_FindingShape ==
    \A T \in DOMAIN all_issues :
       \A i \in 1..Len(all_issues[T]) :
          /\ "issue_type" \in DOMAIN all_issues[T][i]
          /\ all_issues[T][i].issue_type = T
          /\ "severity" \in DOMAIN all_issues[T][i]
          /\ all_issues[T][i].severity \in Severities

-----------------------------------------------------------------------------
(* The registry called again *)

\* the call has ended, by a return or by an exception leaving it
CallEnded == pc \in {"returned", "raised"}

\* C25: the record of the analyzers already called is made anew by each call
\* of execute_checks, so in a sequence of calls on one registry an analyzer
\* that an earlier call ran is run again, exactly once, by every later call
\* that requests one of its issue types (the store itself raising nothing)
C25_RunAgainEachCall ==
    /\ pc = "loop" /\ idx = 1 => executed_functions = {}
    /\ CallEnded /\ ~faulted =>
          \A f \in RequestedOwners \cap earlier : calls[f] = 1

-----------------------------------------------------------------------------
(* The traversals come to an end *)

\* the traversal found a way back to a network it had been at
MetAgain ==
    \/ trav.kind = "network_loops" /\ trav.cycles # <<>>
    \/ trav.kind = "routing_loops" /\ trav.loops_found # <<>>

\* what the traversal has computed when it returns is what the analyzer
\* computes
TraversalsAgree ==
    trav.done =>
      CASE trav.kind = "islands" ->
             LET attached == [r \in TypedAs(graph, C_Router) |-> router_networks(graph, r)]
                 nets == TypedAs(graph, C_Network) \cup UNION {attached[r] : r \in DOMAIN attached}
             IN Cardinality(TypedAs(graph, C_Network)) >= 2 =>
                  trav.network_islands =
                    network_islands(TermsInOrder(nets, trav.hashord),
                                    network_connections(nets, attached))
        [] trav.kind = "network_loops" ->
             \A ng \in {build_network_graph(router_edges(graph, trav.ord))} :
                trav.cycles = find_cycles_union_find(ng.keys, ng.adj)
        [] OTHER ->
             \A rg \in {build_routing_graph(graph, TypedAs(graph, C_Router),
                            TypedAs(graph, C_Network), trav.ord, trav.hashord)} :
                CASE trav.kind = "routing_loops" ->
                       trav.loops_found = routing_loops_found(rg, trav.hashord)
                  [] trav.kind = "shortest_paths" ->
                       trav.long = Len(check_suboptimal_paths(rg, FALSE, trav.hashord))
                  [] trav.kind = "articulation" ->
                       Cardinality(rg.all_networks) > 2 =>
                         trav.articulation_points = find_articulation_points(rg, trav.hashord)

\* C30: every traversal of the analyzers, once begun, returns: the depth-capped
\* cycle search of check_network_loops, the island search of
\* check_unreachable_networks, and the cycle search, the shortest-path search
\* and the articulation-point search of check_routing_inefficiencies, on
\* graphs with cycles, with Routers serving their own network and with
\* several Routers between the same two networks
C30_TraversalsTerminate == (trav.kind # "") ~> trav.done

\* a traversal has returned from a graph with a ring, a Router serving its
\* own network and two Routers between the same two networks, having come
\* back to a network it had been at
C30_Witness ==
    /\ trav.done
    /\ MetAgain
    /\ Link(1, 2) \cup Link(2, 3) \cup Link(3, 1) \cup Link(2, 1) \cup Link(1, 1) \subseteq graph

====
